---- MODULE Spec2Model ----
(***************************************************************************)
(* A model of the D&D character parser (src/src/parser.py, src/main.py).   *)
(*                                                                         *)
(* Python values are represented as follows.                               *)
(*   str    a sequence of Unicode code points (naturals); "" is <<>>       *)
(*   None   the one-element sequence <<-1>>, which is no string            *)
(*   list   a sequence                                                     *)
(*   dict   a function (a record when the keys are fixed literals)         *)
(*   int    an integer;  bool  a BOOLEAN                                   *)
(* A call that may raise returns [raised, exc, value].                     *)
(***************************************************************************)
EXTENDS Integers, Sequences, FiniteSets, TLC

VARIABLES
    data,       \* self.data: the tree loaded by CharacterParser.__init__
    text,       \* the argument of the text-cleaning call under way
    fn,         \* the operation that produced `cleaned` / `result`
    pc,         \* position of the caller
    cleaned,    \* return value of the cleaning operation applied to text
    recleaned,  \* return value of the same operation applied to cleaned
    result,     \* return record of the accessor called last
    loaded,     \* the tree as _load_json returned it
    first,      \* method name -> the return record of its first call, and
                \* whether it was called again
    locals,     \* main(): the local variables assigned so far
    file,       \* the output file output/character_info.json
    printed,    \* main(): the messages printed so far
    exit,       \* main(): "running", "normal", or the sys.exit status
    input       \* the input file data/Miriam Hopps.json

vars ==
    <<data, text, fn, pc, cleaned, recleaned, result, loaded, first, locals,
      file, printed, exit, input>>

\* The variables of the call history and of the command-line run.
others == <<loaded, first, locals, file, printed, exit, input>>

(***************************************************************************)
(* Strings                                                                 *)
(***************************************************************************)

None == <<-1>>

\* Python truthiness of a str-or-None value: `not text`.
Falsy(v) == v = None \/ v = <<>>

\* Code points named in the source.
\* ' '
SP == <<32>>
\* '\n'
LF == <<10>>
\* '\r'
CR == <<13>>
\* '\r\n'
CRLF == <<13, 10>>

\* '<span class="No-Break">'
TAG_SPAN_NOBREAK ==
    <<60, 115, 112, 97, 110, 32, 99, 108, 97, 115, 115, 61, 34, 78, 111, 45, 66, 114,
    101, 97, 107, 34, 62>>

\* '</span>'
TAG_SPAN_END ==
    <<60, 47, 115, 112, 97, 110, 62>>

\* '<p>'
TAG_P ==
    <<60, 112, 62>>

\* '</p>'
TAG_P_END ==
    <<60, 47, 112, 62>>

\* '<br />'
TAG_BR ==
    <<60, 98, 114, 32, 47, 62>>

\* '<ul>'
TAG_UL ==
    <<60, 117, 108, 62>>

\* '</ul>'
TAG_UL_END ==
    <<60, 47, 117, 108, 62>>

\* '<li>'
TAG_LI ==
    <<60, 108, 105, 62>>

\* '</li>'
TAG_LI_END ==
    <<60, 47, 108, 105, 62>>

\* '<strong>'
TAG_STRONG ==
    <<60, 115, 116, 114, 111, 110, 103, 62>>

\* '</strong>'
TAG_STRONG_END ==
    <<60, 47, 115, 116, 114, 111, 110, 103, 62>>

\* '<em>'
TAG_EM ==
    <<60, 101, 109, 62>>

\* '</em>'
TAG_EM_END ==
    <<60, 47, 101, 109, 62>>

\* '<span class="Serif-Character-Style_Bold-Serif">'
TAG_SPAN_BOLD ==
    <<60, 115, 112, 97, 110, 32, 99, 108, 97, 115, 115, 61, 34, 83, 101, 114, 105, 102,
    45, 67, 104, 97, 114, 97, 99, 116, 101, 114, 45, 83, 116, 121, 108, 101, 95, 66,
    111, 108, 100, 45, 83, 101, 114, 105, 102, 34, 62>>

\* '<span class="Serif-Character-Style_Italic-Serif">'
TAG_SPAN_ITALIC ==
    <<60, 115, 112, 97, 110, 32, 99, 108, 97, 115, 115, 61, 34, 83, 101, 114, 105, 102,
    45, 67, 104, 97, 114, 97, 99, 116, 101, 114, 45, 83, 116, 121, 108, 101, 95, 73,
    116, 97, 108, 105, 99, 45, 83, 101, 114, 105, 102, 34, 62>>

\* '<p class="Core-Styles_Core-Body">'
TAG_P_BODY ==
    <<60, 112, 32, 99, 108, 97, 115, 115, 61, 34, 67, 111, 114, 101, 45, 83, 116, 121,
    108, 101, 115, 95, 67, 111, 114, 101, 45, 66, 111, 100, 121, 34, 62>>

\* '<p class="Core-Styles_Core-Body--Extra-Space-After-">'
TAG_P_BODY_EXTRA ==
    <<60, 112, 32, 99, 108, 97, 115, 115, 61, 34, 67, 111, 114, 101, 45, 83, 116, 121,
    108, 101, 115, 95, 67, 111, 114, 101, 45, 66, 111, 100, 121, 45, 45, 69, 120, 116,
    114, 97, 45, 83, 112, 97, 99, 101, 45, 65, 102, 116, 101, 114, 45, 34, 62>>

\* '<div class="mastery-container">'
TAG_DIV_MASTERY ==
    <<60, 100, 105, 118, 32, 99, 108, 97, 115, 115, 61, 34, 109, 97, 115, 116, 101,
    114, 121, 45, 99, 111, 110, 116, 97, 105, 110, 101, 114, 34, 62>>

\* '</div>'
TAG_DIV_END ==
    <<60, 47, 100, 105, 118, 62>>

\* '<hr />'
TAG_HR ==
    <<60, 104, 114, 32, 47, 62>>

\* '&ldquo;'
ENT_LDQUO ==
    <<38, 108, 100, 113, 117, 111, 59>>

\* '&rdquo;'
ENT_RDQUO ==
    <<38, 114, 100, 113, 117, 111, 59>>

\* '&ucirc;'
ENT_UCIRC ==
    <<38, 117, 99, 105, 114, 99, 59>>

\* '&mdash;'
ENT_MDASH ==
    <<38, 109, 100, 97, 115, 104, 59>>

\* '&nbsp;'
ENT_NBSP ==
    <<38, 110, 98, 115, 112, 59>>

\* '&rsquo;'
ENT_RSQUO ==
    <<38, 114, 115, 113, 117, 111, 59>>

\* '&lsquo;'
ENT_LSQUO ==
    <<38, 108, 115, 113, 117, 111, 59>>

(***************************************************************************)
(* str.replace, str.split, str.join, str.strip                             *)
(***************************************************************************)

\* The least element of a non-empty set of integers.
Min(S) == CHOOSE x \in S : \A y \in S : x <= y

\* The greatest element of a non-empty set of integers.
Max(S) == CHOOSE x \in S : \A y \in S : y <= x

\* s[i:i+len(old)] == old
MatchAt(s, old, i) ==
    /\ i + Len(old) - 1 <= Len(s)
    /\ \A k \in 1..Len(old) : s[i + k - 1] = old[k]

\* str.replace(old, new) on s[i:], for a non-empty old: every
\* non-overlapping occurrence, found scanning from the left, is replaced.
RECURSIVE ReplaceFrom(_, _, _, _)
ReplaceFrom(s, old, new, i) ==
    LET found == {j \in i..Len(s) : MatchAt(s, old, j)}
    IN  IF found = {} THEN SubSeq(s, i, Len(s))
        ELSE SubSeq(s, i, Min(found) - 1) \o new
                 \o ReplaceFrom(s, old, new, Min(found) + Len(old))

replace(s, old, new) == IF s = <<>> THEN <<>> ELSE ReplaceFrom(s, old, new, 1)

\* The code points str.split() and str.strip() treat as whitespace
\* (those for which str.isspace() is true).
Whitespace ==
    {9, 10, 11, 12, 13, 28, 29, 30, 31, 32, 133, 160, 5760, 8232, 8233, 8239,
     8287, 12288} \cup (8192..8202)

\* An isspace that knows the space character only.
IsSpaceBlankOnly(c) == c = 32

IsSpace(c) == c \in Whitespace

\* str.split() without arguments on s[i:]: the maximal runs of
\* non-whitespace, in order.
RECURSIVE SplitFrom(_, _)
SplitFrom(s, i) ==
    LET starts == {j \in i..Len(s) : ~IsSpace(s[j])}
    IN  IF starts = {} THEN <<>>
        ELSE LET b == Min(starts)
                 e == Min({j \in b..Len(s) : j = Len(s) \/ IsSpace(s[j + 1])})
             IN  <<SubSeq(s, b, e)>> \o SplitFrom(s, e + 1)

split(s) == SplitFrom(s, 1)

\* sep.join(parts)
RECURSIVE join(_, _)
join(sep, parts) ==
    IF parts = <<>> THEN <<>>
    ELSE IF Len(parts) = 1 THEN parts[1]
    ELSE parts[1] \o sep \o join(sep, Tail(parts))

\* str.strip()
strip(s) ==
    LET kept == {i \in 1..Len(s) : ~IsSpace(s[i])}
    IN  IF kept = {} THEN <<>> ELSE SubSeq(s, Min(kept), Max(kept))

\* for old, new in table: text = text.replace(old, new).  Every old is
\* non-empty, so a text that has become empty stays empty.
RECURSIVE ReplaceEach(_, _)
ReplaceEach(s, table) ==
    IF table = <<>> \/ s = <<>> THEN s
    ELSE ReplaceEach(replace(s, table[1][1], table[1][2]), Tail(table))

\* str.upper() / str.lower() of one code point (ASCII letters; the model's
\* inputs hold no other cased characters).
Upper(c) == IF c \in 97..122 THEN c - 32 ELSE c

Lower(c) == IF c \in 65..90 THEN c + 32 ELSE c

\* A capitalize that leaves the characters after the first as they are.
capitalize_first_only(s) ==
    [i \in 1..Len(s) |-> IF i = 1 THEN Upper(s[i]) ELSE s[i]]

\* str.capitalize(): the first character upper-cased, the rest lower-cased.
capitalize(s) ==
    [i \in 1..Len(s) |-> IF i = 1 THEN Upper(s[i]) ELSE Lower(s[i])]

\* str.endswith(suffix)
endswith(s, suffix) ==
    /\ Len(suffix) <= Len(s)
    /\ SubSeq(s, Len(s) - Len(suffix) + 1, Len(s)) = suffix

\* a < b for two str values: lexicographic order by code point.
StrLess(a, b) ==
    \E i \in 1..(Len(b)) :
        /\ i <= Len(a) + 1
        /\ \A k \in 1..(i - 1) : a[k] = b[k]
        /\ (i = Len(a) + 1 \/ a[i] < b[i])

\* The stable insertion of x into the sorted list xs: after every element
\* that is not greater than x.
RECURSIVE Insert(_, _)
Insert(x, xs) ==
    IF xs = <<>> THEN <<x>>
    ELSE IF StrLess(x, xs[1]) THEN <<x>> \o xs
    ELSE <<xs[1]>> \o Insert(x, Tail(xs))

\* A sorted that returns the list in the order it came.
unsorted(xs) == xs

\* sorted(xs) for a list of str.
RECURSIVE sorted(_)
sorted(xs) ==
    IF xs = <<>> THEN <<>>
    ELSE Insert(xs[Len(xs)], sorted(SubSeq(xs, 1, Len(xs) - 1)))

(***************************************************************************)
(* Text cleaning                                                           *)
(***************************************************************************)

\* Replacement strings.
EMPTY == <<>>
\* '"'
DQUOTE == <<34>>
\* "'"
SQUOTE == <<39>>
\* '-'
HYPHEN == <<45>>
\* '...'
DOTS == <<46, 46, 46>>
\* 'u'
LETTER_U == <<117>>
\* 'e'
LETTER_E == <<101>>
\* the bullet glyph, U+2022
BULLET == <<8226>>

\* _clean_text, "Remove HTML tags": the replace calls in source order.
private_tags ==
    << <<TAG_P_BODY, EMPTY>>, <<TAG_P_BODY_EXTRA, EMPTY>>,
       <<TAG_SPAN_NOBREAK, EMPTY>>, <<TAG_SPAN_ITALIC, EMPTY>>,
       <<TAG_SPAN_END, EMPTY>>, <<TAG_P_END, EMPTY>>, <<TAG_P, EMPTY>>,
       <<TAG_BR, SP>> >>

\* _clean_text, "Convert HTML entities".
private_entities ==
    << <<ENT_LDQUO, DQUOTE>>, <<ENT_RDQUO, DQUOTE>>, <<ENT_MDASH, HYPHEN>>,
       <<ENT_NBSP, SP>>, <<ENT_UCIRC, LETTER_U>>, <<ENT_RSQUO, SQUOTE>>,
       <<ENT_LSQUO, SQUOTE>> >>

\* _clean_text, "Convert Unicode characters".
private_unicode ==
    << <<(<<8217>>), SQUOTE>>, <<(<<8216>>), SQUOTE>>, <<(<<8220>>), DQUOTE>>,
       <<(<<8221>>), DQUOTE>>, <<(<<8212>>), HYPHEN>>, <<(<<8226>>), BULLET>>,
       <<(<<160>>), SP>> >>

\* CharacterParser._clean_text(text)
_clean_text(t) ==
    IF Falsy(t) THEN EMPTY
    ELSE LET t1 == ReplaceEach(t, private_tags)
             t2 == ReplaceEach(t1, private_entities)
             t3 == ReplaceEach(t2, private_unicode)
             t4 == replace(replace(t3, CRLF, SP), LF, SP)
             t5 == join(SP, split(t4))
         IN  strip(t5)

\* clean_text: the html_tags list, each tag replaced by ''.
html_tags ==
    << <<TAG_P, EMPTY>>, <<TAG_P_END, EMPTY>>, <<TAG_BR, EMPTY>>,
       <<TAG_UL, EMPTY>>, <<TAG_UL_END, EMPTY>>, <<TAG_LI, EMPTY>>,
       <<TAG_LI_END, EMPTY>>, <<TAG_STRONG, EMPTY>>, <<TAG_STRONG_END, EMPTY>>,
       <<TAG_EM, EMPTY>>, <<TAG_EM_END, EMPTY>>, <<TAG_SPAN_BOLD, EMPTY>>,
       <<TAG_SPAN_ITALIC, EMPTY>>, <<TAG_P_BODY, EMPTY>>,
       <<TAG_P_BODY_EXTRA, EMPTY>>, <<TAG_DIV_MASTERY, EMPTY>>,
       <<TAG_DIV_END, EMPTY>>, <<TAG_HR, EMPTY>> >>

\* clean_text: the html_entities dict, in insertion order.
html_entities ==
    << <<ENT_LDQUO, DQUOTE>>, <<ENT_RDQUO, DQUOTE>>, <<ENT_UCIRC, LETTER_U>>,
       <<ENT_MDASH, HYPHEN>>, <<ENT_NBSP, SP>> >>

\* clean_text: the unicode_map dict, in insertion order.
unicode_map ==
    << <<(<<8217>>), SQUOTE>>, <<(<<8216>>), SQUOTE>>, <<(<<8220>>), DQUOTE>>,
       <<(<<8221>>), DQUOTE>>, <<(<<8212>>), HYPHEN>>, <<(<<8211>>), HYPHEN>>,
       <<(<<8226>>), BULLET>>, <<(<<8230>>), DOTS>>, <<(<<160>>), SP>>,
       <<(<<233>>), LETTER_E>>, <<(<<251>>), LETTER_U>>, <<(<<8722>>), HYPHEN>> >>

\* CharacterParser.clean_text(text)
clean_text(t) ==
    IF Falsy(t) THEN EMPTY
    ELSE LET t1 == replace(replace(t, TAG_SPAN_NOBREAK, EMPTY), TAG_SPAN_END, EMPTY)
             t2 == ReplaceEach(t1, html_tags)
             t3 == ReplaceEach(t2, html_entities)
             t4 == ReplaceEach(t3, unicode_map)
             t5 == replace(replace(replace(t4, CRLF, SP), LF, SP), CR, SP)
         IN  join(SP, split(t5))

\* `sub in s` for two str values.
Contains(s, sub) == \E i \in 1..(Len(s) + 1) : MatchAt(s, sub, i)

\* str.startswith(prefix)
startswith(s, prefix) ==
    /\ Len(prefix) <= Len(s)
    /\ SubSeq(s, 1, Len(prefix)) = prefix

\* str.lower()
lower(s) == [i \in 1..Len(s) |-> Lower(s[i])]

\* A cased character (ASCII letters, as for Upper and Lower).
IsCased(c) == c \in 65..90 \/ c \in 97..122

\* str.title(): a cased character is upper-cased when the character before
\* it is not cased, and lower-cased when it is.
title(s) ==
    [i \in 1..Len(s) |->
        IF ~IsCased(s[i]) THEN s[i]
        ELSE IF i > 1 /\ IsCased(s[i - 1]) THEN Lower(s[i])
        ELSE Upper(s[i])]

\* str.split(sep) on s[i:], for a non-empty sep: the pieces between the
\* non-overlapping occurrences of sep; at least one piece.
RECURSIVE SplitSepFrom(_, _, _)
SplitSepFrom(s, sep, i) ==
    LET found == {j \in i..Len(s) : MatchAt(s, sep, j)}
    IN  IF found = {} THEN <<SubSeq(s, i, Len(s))>>
        ELSE <<SubSeq(s, i, Min(found) - 1)>>
                 \o SplitSepFrom(s, sep, Min(found) + Len(sep))

split_sep(s, sep) == IF s = <<>> THEN <<EMPTY>> ELSE SplitSepFrom(s, sep, 1)

\* The decimal digits of a natural number.
RECURSIVE Digits(_)
Digits(n) ==
    IF n < 10 THEN <<48 + n>> ELSE Digits(n \div 10) \o <<48 + (n % 10)>>

\* f"{n}" for an int n.
format_int(n) == IF n < 0 THEN <<45>> \o Digits(0 - n) ELSE Digits(n)

\* [f(x) for x in xs if keep(x)] over str values, with f = strip and
\* keep = "strip() is not empty".
RECURSIVE StrippedNonEmpty(_)
StrippedNonEmpty(xs) ==
    IF xs = <<>> THEN <<>>
    ELSE IF strip(xs[1]) = <<>> THEN StrippedNonEmpty(Tail(xs))
    ELSE <<strip(xs[1])>> \o StrippedNonEmpty(Tail(xs))

(***************************************************************************)
(* Calls and dictionaries                                                  *)
(***************************************************************************)

\* A call that returned v.
Ok(v) == [raised |-> FALSE, exc |-> "", value |-> v]

\* A call that raised exception e.
Raise(e) == [raised |-> TRUE, exc |-> e, value |-> None]

\* `k in d`
Has(d, k) == k \in DOMAIN d

\* d.get(k, default)
Get(d, k, default) == IF Has(d, k) THEN d[k] ELSE default

(***************************************************************************)
(* Inventory                                                               *)
(***************************************************************************)

\* 'Donkey (or Mule)'
DONKEY ==
    <<68, 111, 110, 107, 101, 121, 32, 40, 111, 114, 32, 77, 117, 108, 101, 41>>
\* 'Backpack'
BACKPACK == <<66, 97, 99, 107, 112, 97, 99, 107>>
\* 'Common'
COMMON == <<67, 111, 109, 109, 111, 110>>
\* 'gp'
GP == <<103, 112>>

\* The inventory_item dict built for one kept item.
\* (`definition.get('cost') is not None`: the trees of this model carry a
\* cost that is a number, or no cost key.)
inventory_item(item, definition) ==
    LET base ==
            [name |-> definition.name,
             quantity |-> item.quantity,
             type |-> Get(definition, "type", EMPTY),
             description |-> clean_text(Get(definition, "description", EMPTY)),
             weight |-> Get(definition, "weight", 0),
             equipped |-> Get(item, "equipped", FALSE),
             rarity |-> Get(definition, "rarity", COMMON),
             magic |-> Get(definition, "magic", FALSE)]
        cost == [quantity |-> definition.cost, unit |-> GP]
        container ==
            [capacity |-> Get(definition, "capacity", EMPTY),
             capacity_weight |-> Get(definition, "capacityWeight", 0)]
        hasCost == Has(definition, "cost")
        isContainer == Get(definition, "isContainer", FALSE)
    IN  IF hasCost /\ isContainer
            THEN base @@ [cost |-> cost, container |-> container]
        ELSE IF hasCost THEN base @@ [cost |-> cost]
        ELSE IF isContainer THEN base @@ [container |-> container]
        ELSE base

\* The loop of get_inventory without the Backpack rule: every item but the
\* mount is kept.
RECURSIVE InventoryLoopKeepingAll(_, _, _, _)
InventoryLoopKeepingAll(inventory_data, i, inventory, seen_items) ==
    IF i > Len(inventory_data) THEN Ok(inventory)
    ELSE LET item == inventory_data[i]
         IN  IF item.definition.name = DONKEY
                 THEN InventoryLoopKeepingAll(inventory_data, i + 1, inventory,
                                              seen_items)
             ELSE InventoryLoopKeepingAll(inventory_data, i + 1,
                      Append(inventory, inventory_item(item, item.definition)),
                      seen_items)

\* The loop of get_inventory from item i on; `inventory` and `seen_items`
\* are the loop's accumulators.
RECURSIVE InventoryLoop(_, _, _, _)
InventoryLoop(inventory_data, i, inventory, seen_items) ==
    IF i > Len(inventory_data) THEN Ok(inventory)
    ELSE LET item == inventory_data[i]
         IN  IF ~Has(item, "definition") \/ ~Has(item.definition, "name")
                 THEN Raise("KeyError")
             ELSE IF item.definition.name = DONKEY
                 THEN InventoryLoop(inventory_data, i + 1, inventory, seen_items)
             ELSE IF item.definition.name = BACKPACK /\ BACKPACK \in seen_items
                 THEN InventoryLoop(inventory_data, i + 1, inventory, seen_items)
             ELSE IF ~Has(item, "quantity") THEN Raise("KeyError")
             ELSE InventoryLoop(inventory_data, i + 1,
                      Append(inventory, inventory_item(item, item.definition)),
                      seen_items \cup {item.definition.name})

\* CharacterParser.get_inventory()
get_inventory(d) ==
    IF ~Has(d, "data") THEN Raise("KeyError")
    ELSE InventoryLoop(Get(d.data, "inventory", <<>>), 1, <<>>, {})

(***************************************************************************)
(* Scalar extractors, ability scores, race                                 *)
(***************************************************************************)

\* CharacterParser.get_name()
get_name(d) ==
    IF Has(d, "data") /\ Has(d.data, "name") THEN Ok(d.data.name)
    ELSE Raise("KeyError")

\* CharacterParser.get_username()
get_username(d) ==
    IF Has(d, "data") /\ Has(d.data, "username") THEN Ok(d.data.username)
    ELSE Raise("KeyError")

\* self.data['data']['modifiers']['race'] can be evaluated.
HasRaceModifiers(d) ==
    /\ Has(d, "data")
    /\ Has(d.data, "modifiers")
    /\ Has(d.data.modifiers, "race")

\* The loop of get_languages from modifier i on.
RECURSIVE LanguagesLoop(_, _, _)
LanguagesLoop(race_modifiers, i, languages) ==
    IF i > Len(race_modifiers) THEN Ok(sorted(languages))
    ELSE LET modifier == race_modifiers[i]
         IN  IF modifier.type = "language"
                 THEN IF ~Has(modifier, "subType") THEN Raise("KeyError")
                      ELSE LanguagesLoop(race_modifiers, i + 1,
                               Append(languages, capitalize(modifier.subType)))
             ELSE LanguagesLoop(race_modifiers, i + 1, languages)

\* CharacterParser.get_languages()
get_languages(d) ==
    IF ~HasRaceModifiers(d) THEN Raise("KeyError")
    ELSE LanguagesLoop(d.data.modifiers.race, 1, <<>>)

\* The loop of get_racial_skills from modifier i on.
RECURSIVE SkillsLoop(_, _, _)
SkillsLoop(race_modifiers, i, skills) ==
    IF i > Len(race_modifiers) THEN Ok(sorted(skills))
    ELSE LET modifier == race_modifiers[i]
         IN  IF modifier.type = "proficiency" /\ Has(modifier, "subType")
                 THEN SkillsLoop(race_modifiers, i + 1,
                          Append(skills, capitalize(modifier.subType)))
             ELSE SkillsLoop(race_modifiers, i + 1, skills)

\* CharacterParser.get_racial_skills()
get_racial_skills(d) ==
    IF ~HasRaceModifiers(d) THEN Raise("KeyError")
    ELSE SkillsLoop(d.data.modifiers.race, 1, <<>>)

\* '-score'
SCORE_SUFFIX == <<45, 115, 99, 111, 114, 101>>

\* The dict with no key.
EmptyDict == [k \in {} |-> 0]

\* d[k] = v
SetItem(d, k, v) == (k :> v) @@ d

\* The loop of get_racial_bonuses from modifier i on.
RECURSIVE BonusesLoop(_, _, _)
BonusesLoop(race_modifiers, i, bonuses) ==
    IF i > Len(race_modifiers) THEN Ok(bonuses)
    ELSE LET modifier == race_modifiers[i]
         IN  IF modifier.type = "bonus"
                 THEN IF ~Has(modifier, "subType") THEN Raise("KeyError")
                      ELSE IF endswith(modifier.subType, SCORE_SUFFIX)
                          THEN IF ~Has(modifier, "value") THEN Raise("KeyError")
                               ELSE BonusesLoop(race_modifiers, i + 1,
                                        SetItem(bonuses,
                                            replace(modifier.subType, SCORE_SUFFIX, EMPTY),
                                            modifier.value))
                      ELSE BonusesLoop(race_modifiers, i + 1, bonuses)
             ELSE BonusesLoop(race_modifiers, i + 1, bonuses)

\* CharacterParser.get_racial_bonuses()
get_racial_bonuses(d) ==
    IF ~HasRaceModifiers(d) THEN Raise("KeyError")
    ELSE BonusesLoop(d.data.modifiers.race, 1, EmptyDict)

\* A stat_names table with the names of ids 4 and 5 exchanged.
stat_names_swapped ==
    <<"strength", "dexterity", "constitution", "wisdom", "intelligence", "charisma">>

\* get_stats: the stat_names dict.
stat_names ==
    <<"strength", "dexterity", "constitution", "intelligence", "wisdom", "charisma">>

\* A get_stats loop that passes over an entry whose id is not in the table.
RECURSIVE StatsLoopSkipping(_, _, _)
StatsLoopSkipping(stats_list, i, stats) ==
    IF i > Len(stats_list) THEN Ok(stats)
    ELSE LET stat == stats_list[i]
         IN  IF stat.id \notin DOMAIN stat_names
                 THEN StatsLoopSkipping(stats_list, i + 1, stats)
             ELSE StatsLoopSkipping(stats_list, i + 1,
                      SetItem(stats, stat_names[stat.id], stat.value))

\* The loop of get_stats from entry i on.
RECURSIVE StatsLoop(_, _, _)
StatsLoop(stats_list, i, stats) ==
    IF i > Len(stats_list) THEN Ok(stats)
    ELSE LET stat == stats_list[i]
         IN  IF stat.id \notin DOMAIN stat_names THEN Raise("KeyError")
             ELSE StatsLoop(stats_list, i + 1,
                      SetItem(stats, stat_names[stat.id], stat.value))

\* CharacterParser.get_stats()
get_stats(d) ==
    IF ~(Has(d, "data") /\ Has(d.data, "stats")) THEN Raise("KeyError")
    ELSE StatsLoop(d.data.stats, 1, EmptyDict)

\* CharacterParser.get_race(): the dict literal, its values evaluated in
\* source order.
get_race(d) ==
    IF ~(Has(d, "data") /\ Has(d.data, "race") /\ Has(d.data.race, "fullName"))
        THEN Raise("KeyError")
    ELSE LET languages == get_languages(d)
             ability_bonuses == get_racial_bonuses(d)
             skills == get_racial_skills(d)
         IN  IF languages.raised THEN languages
             ELSE IF ability_bonuses.raised THEN ability_bonuses
             ELSE IF skills.raised THEN skills
             ELSE Ok([name |-> d.data.race.fullName,
                      languages |-> languages.value,
                      ability_bonuses |-> ability_bonuses.value,
                      skills |-> skills.value])

\* 'Fighting Style'
FIGHTING_STYLE ==
    <<70, 105, 103, 104, 116, 105, 110, 103, 32, 83, 116, 121, 108, 101>>
\* 'Martial Archetype'
MARTIAL_ARCHETYPE ==
    <<77, 97, 114, 116, 105, 97, 108, 32, 65, 114, 99, 104, 101, 116, 121,
    112, 101>>
\* 'Ability Score Improvement'
ABILITY_SCORE_IMPROVEMENT ==
    <<65, 98, 105, 108, 105, 116, 121, 32, 83, 99, 111, 114, 101, 32, 73, 109,
    112, 114, 111, 118, 101, 109, 101, 110, 116>>
\* 'Hit Points'
HIT_POINTS ==
    <<72, 105, 116, 32, 80, 111, 105, 110, 116, 115>>
\* 'Equipment'
EQUIPMENT ==
    <<69, 113, 117, 105, 112, 109, 101, 110, 116>>
\* 'Proficiencies'
PROFICIENCIES ==
    <<80, 114, 111, 102, 105, 99, 105, 101, 110, 99, 105, 101, 115>>
\* 'Proficiency'
PROFICIENCY ==
    <<80, 114, 111, 102, 105, 99, 105, 101, 110, 99, 121>>
\* 'Manifest Echo'
MANIFEST_ECHO ==
    <<77, 97, 110, 105, 102, 101, 115, 116, 32, 69, 99, 104, 111>>
\* 'Unleash Incarnation'
UNLEASH_INCARNATION ==
    <<85, 110, 108, 101, 97, 115, 104, 32, 73, 110, 99, 97, 114, 110, 97, 116,
    105, 111, 110>>
\* 'Echo Avatar'
ECHO_AVATAR ==
    <<69, 99, 104, 111, 32, 65, 118, 97, 116, 97, 114>>
\* 'Shadow Martyr'
SHADOW_MARTYR ==
    <<83, 104, 97, 100, 111, 119, 32, 77, 97, 114, 116, 121, 114>>
\* 'Reclaim Potential'
RECLAIM_POTENTIAL ==
    <<82, 101, 99, 108, 97, 105, 109, 32, 80, 111, 116, 101, 110, 116, 105,
    97, 108>>
\* 'Legion of One'
LEGION_OF_ONE ==
    <<76, 101, 103, 105, 111, 110, 32, 111, 102, 32, 79, 110, 101>>
\* 'Allows drawing thrown weapons as part of the attack'
STYLE_LINE_1 ==
    <<65, 108, 108, 111, 119, 115, 32, 100, 114, 97, 119, 105, 110, 103, 32,
    116, 104, 114, 111, 119, 110, 32, 119, 101, 97, 112, 111, 110, 115, 32,
    97, 115, 32, 112, 97, 114, 116, 32, 111, 102, 32, 116, 104, 101, 32, 97,
    116, 116, 97, 99, 107>>
\* 'Adds +2 to damage rolls with thrown weapons'
STYLE_LINE_2 ==
    <<65, 100, 100, 115, 32, 43, 50, 32, 116, 111, 32, 100, 97, 109, 97, 103,
    101, 32, 114, 111, 108, 108, 115, 32, 119, 105, 116, 104, 32, 116, 104,
    114, 111, 119, 110, 32, 119, 101, 97, 112, 111, 110, 115>>
\* 'Thieves Tools'
THIEVES_TOOLS_PLAIN ==
    <<84, 104, 105, 101, 118, 101, 115, 32, 84, 111, 111, 108, 115>>
\* "Thieves' Tools"
THIEVES_TOOLS ==
    <<84, 104, 105, 101, 118, 101, 115, 39, 32, 84, 111, 111, 108, 115>>
\* 'Tools'
TOOLS == <<84, 111, 111, 108, 115>>
\* "' Tools"
TOOLS_APOSTROPHE == <<39, 32, 84, 111, 111, 108, 115>>
\* 'Proficiency in '
PROFICIENCY_IN ==
    <<80, 114, 111, 102, 105, 99, 105, 101, 110, 99, 121, 32, 105, 110, 32>>
\* ':'
COLON == <<58>>
\* ': '
COLON_SPACE == <<58, 32>>
\* 'score'
SCORE == <<115, 99, 111, 114, 101>>
\* 'unarmed-damage-die'
UNARMED_DAMAGE_DIE ==
    <<117, 110, 97, 114, 109, 101, 100, 45, 100, 97, 109, 97, 103, 101, 45,
    100, 105, 101>>
\* 'Concentration'
CONCENTRATION ==
    <<67, 111, 110, 99, 101, 110, 116, 114, 97, 116, 105, 111, 110>>
\* 'Concentration, up to '
CONCENTRATION_UP_TO ==
    <<67, 111, 110, 99, 101, 110, 116, 114, 97, 116, 105, 111, 110, 44, 32,
    117, 112, 32, 116, 111, 32>>
\* ' feet'
FEET_SUFFIX == <<32, 102, 101, 101, 116>>
\* ' action'
ACTION_SUFFIX == <<32, 97, 99, 116, 105, 111, 110>>

(***************************************************************************)
(* Characteristics and classes                                             *)
(***************************************************************************)

\* The keys get_characteristics reads.
CharacteristicKeys ==
    {"gender", "faith", "age", "hair", "eyes", "skin", "height", "weight"}

\* CharacterParser.get_characteristics()
get_characteristics(d) ==
    IF ~Has(d, "data") THEN Raise("KeyError")
    ELSE IF ~(CharacteristicKeys \subseteq DOMAIN d.data) THEN Raise("KeyError")
    ELSE Ok([k \in CharacteristicKeys |-> d.data[k]])

\* The loop of get_class_proficiencies (and of the proficiency names of
\* get_background_proficiencies) from modifier i on.
RECURSIVE ClassProficienciesLoop(_, _, _)
ClassProficienciesLoop(class_modifiers, i, proficiencies) ==
    IF i > Len(class_modifiers) THEN Ok(sorted(proficiencies))
    ELSE LET modifier == class_modifiers[i]
         IN  IF ~Has(modifier, "type") THEN Raise("KeyError")
             ELSE IF modifier.type = "proficiency"
                 THEN IF ~Has(modifier, "subType") THEN Raise("KeyError")
                      ELSE ClassProficienciesLoop(class_modifiers, i + 1,
                               Append(proficiencies,
                                   title(replace(modifier.subType, HYPHEN, SP))))
             ELSE ClassProficienciesLoop(class_modifiers, i + 1, proficiencies)

\* CharacterParser.get_class_proficiencies()
get_class_proficiencies(d) ==
    IF ~(Has(d, "data") /\ Has(d.data, "modifiers")) THEN Raise("KeyError")
    ELSE ClassProficienciesLoop(Get(d.data.modifiers, "class", <<>>), 1, <<>>)

\* get_class_features: excluded_features
excluded_features ==
    {FIGHTING_STYLE, MARTIAL_ARCHETYPE, ABILITY_SCORE_IMPROVEMENT, HIT_POINTS,
     EQUIPMENT, PROFICIENCIES}

\* The loop of get_class_features without the level gate: every feature
\* whose name is not excluded is kept.
RECURSIVE ClassFeaturesLoopUngated(_, _, _, _)
ClassFeaturesLoopUngated(class_features, i, current_level, features) ==
    IF i > Len(class_features) THEN Ok(features)
    ELSE LET feature == class_features[i]
         IN  IF feature.name \notin excluded_features
                 THEN ClassFeaturesLoopUngated(class_features, i + 1,
                          current_level,
                          Append(features,
                              [name |-> feature.name,
                               description |->
                                   StrippedNonEmpty(
                                       split_sep(_clean_text(feature.description),
                                                 LF))]))
             ELSE ClassFeaturesLoopUngated(class_features, i + 1, current_level,
                                           features)

\* The loop of get_class_features from feature i on.
RECURSIVE ClassFeaturesLoop(_, _, _, _)
ClassFeaturesLoop(class_features, i, current_level, features) ==
    IF i > Len(class_features) THEN Ok(features)
    ELSE LET feature == class_features[i]
         IN  IF ~Has(feature, "requiredLevel") THEN Raise("KeyError")
             ELSE IF feature.requiredLevel <= current_level
                     /\ ~Has(feature, "name") THEN Raise("KeyError")
             ELSE IF feature.requiredLevel <= current_level
                     /\ feature.name \notin excluded_features
                 THEN IF ~Has(feature, "description") THEN Raise("KeyError")
                      ELSE ClassFeaturesLoop(class_features, i + 1, current_level,
                               Append(features,
                                   [name |-> feature.name,
                                    description |->
                                        StrippedNonEmpty(
                                            split_sep(_clean_text(feature.description),
                                                      LF))]))
             ELSE ClassFeaturesLoop(class_features, i + 1, current_level, features)

\* CharacterParser.get_class_features(class_info)
get_class_features(class_info) ==
    IF ~Has(class_info, "level") \/ ~Has(class_info, "definition")
        THEN Raise("KeyError")
    ELSE ClassFeaturesLoop(Get(class_info.definition, "classFeatures", <<>>), 1,
                           class_info.level, <<>>)

\* get_subclass_features: echo_knight_features
echo_knight_features ==
    (MANIFEST_ECHO :> 3) @@ (UNLEASH_INCARNATION :> 3) @@ (ECHO_AVATAR :> 7)
        @@ (SHADOW_MARTYR :> 10) @@ (RECLAIM_POTENTIAL :> 15)
        @@ (LEGION_OF_ONE :> 18)

\* [clean_text(line) for line in lines if clean_text(line)]
RECURSIVE CleanedNonEmpty(_)
CleanedNonEmpty(lines) ==
    IF lines = <<>> THEN <<>>
    ELSE IF clean_text(lines[1]) = <<>> THEN CleanedNonEmpty(Tail(lines))
    ELSE <<clean_text(lines[1])>> \o CleanedNonEmpty(Tail(lines))

\* The loop of get_subclass_features with every feature of the subclass
\* definition gated by its own requiredLevel instead of the allow-list.
RECURSIVE SubclassFeaturesLoopByRequiredLevel(_, _, _, _)
SubclassFeaturesLoopByRequiredLevel(subclass_features, i, current_level, features) ==
    IF i > Len(subclass_features) THEN Ok(features)
    ELSE LET feature == subclass_features[i]
         IN  IF feature.requiredLevel <= current_level
                 THEN SubclassFeaturesLoopByRequiredLevel(subclass_features,
                          i + 1, current_level,
                          Append(features,
                              [name |-> feature.name,
                               description |->
                                   CleanedNonEmpty(
                                       split_sep(feature.description, LF))]))
             ELSE SubclassFeaturesLoopByRequiredLevel(subclass_features, i + 1,
                                                      current_level, features)

\* The loop of get_subclass_features from feature i on.
RECURSIVE SubclassFeaturesLoop(_, _, _, _)
SubclassFeaturesLoop(subclass_features, i, current_level, features) ==
    IF i > Len(subclass_features) THEN Ok(features)
    ELSE LET feature == subclass_features[i]
         IN  IF ~Has(feature, "name") THEN Raise("KeyError")
             ELSE IF Has(echo_knight_features, feature.name)
                     /\ echo_knight_features[feature.name] <= current_level
                 THEN IF ~Has(feature, "description") THEN Raise("KeyError")
                      ELSE SubclassFeaturesLoop(subclass_features, i + 1,
                               current_level,
                               Append(features,
                                   [name |-> feature.name,
                                    description |->
                                        CleanedNonEmpty(
                                            split_sep(feature.description, LF))]))
             ELSE SubclassFeaturesLoop(subclass_features, i + 1, current_level,
                                       features)

\* `class_info.get('subclassDefinition')` is truthy (a tree carries a
\* non-empty subclass definition, or none).
HasSubclass(class_info) ==
    Has(class_info, "subclassDefinition") /\ DOMAIN class_info.subclassDefinition # {}

\* CharacterParser.get_subclass_features(class_info)
get_subclass_features(class_info) ==
    IF ~HasSubclass(class_info) THEN Ok(<<>>)
    ELSE IF ~Has(class_info, "level") THEN Raise("KeyError")
    ELSE SubclassFeaturesLoop(
             Get(class_info.subclassDefinition, "classFeatures", <<>>), 1,
             class_info.level, <<>>)

\* get_classes: the component id of the Fighting Style.
FIGHTING_STYLE_COMPONENT == 191

\* The fighting-style entries get_classes appends for the options from
\* option i on.
RECURSIVE FightingStyleLoop(_, _, _)
FightingStyleLoop(options, i, features) ==
    IF i > Len(options) THEN Ok(features)
    ELSE LET option == options[i]
         IN  IF ~Has(option, "componentId") THEN Raise("KeyError")
             ELSE IF option.componentId = FIGHTING_STYLE_COMPONENT
                 THEN IF ~(Has(option, "definition")
                           /\ Has(option.definition, "name"))
                          THEN Raise("KeyError")
                      ELSE FightingStyleLoop(options, i + 1,
                               Append(features,
                                   [name |-> option.definition.name,
                                    description |->
                                        <<STYLE_LINE_1, STYLE_LINE_2>>]))
             ELSE FightingStyleLoop(options, i + 1, features)

\* [f for f in class_features if not f['name'].startswith('Proficiency')]
RECURSIVE WithoutProficiency(_)
WithoutProficiency(class_features) ==
    IF class_features = <<>> THEN <<>>
    ELSE IF startswith(class_features[1].name, PROFICIENCY)
        THEN WithoutProficiency(Tail(class_features))
    ELSE <<class_features[1]>> \o WithoutProficiency(Tail(class_features))

\* One iteration of the loop of get_classes: the entry appended for
\* class_info.
class_entry(d, class_info) ==
    IF ~(Has(class_info, "definition") /\ Has(class_info.definition, "name")
         /\ Has(class_info, "level"))
        THEN Raise("KeyError")
    ELSE LET proficiencies == get_class_proficiencies(d)
         IN  IF proficiencies.raised THEN proficiencies
             ELSE IF ~(Has(d.data, "options") /\ Has(d.data.options, "class"))
                 THEN Raise("KeyError")
             ELSE LET styles == FightingStyleLoop(d.data.options.class, 1, <<>>)
                      class_features == get_class_features(class_info)
                      subclass_bonuses == get_subclass_features(class_info)
                  IN  IF styles.raised THEN styles
                      ELSE IF class_features.raised THEN class_features
                      ELSE IF HasSubclass(class_info)
                              /\ ~Has(class_info.subclassDefinition, "name")
                          THEN Raise("KeyError")
                      ELSE IF subclass_bonuses.raised THEN subclass_bonuses
                      ELSE Ok([base_class |->
                                  [name |-> class_info.definition.name,
                                   level |-> class_info.level,
                                   class_bonuses |->
                                       [proficiencies |-> proficiencies.value,
                                        features |->
                                            styles.value
                                              \o WithoutProficiency(
                                                     class_features.value)]],
                               subclass |->
                                  IF HasSubclass(class_info)
                                      THEN [name |->
                                                class_info.subclassDefinition.name,
                                            subclass_bonuses |->
                                                subclass_bonuses.value]
                                  ELSE None])

\* The loop of get_classes from class i on.
RECURSIVE ClassesLoop(_, _, _)
ClassesLoop(d, i, classes) ==
    IF i > Len(d.data.classes) THEN Ok(classes)
    ELSE LET entry == class_entry(d, d.data.classes[i])
         IN  IF entry.raised THEN entry
             ELSE ClassesLoop(d, i + 1, Append(classes, entry.value))

\* CharacterParser.get_classes()
get_classes(d) ==
    IF ~(Has(d, "data") /\ Has(d.data, "classes")) THEN Raise("KeyError")
    ELSE ClassesLoop(d, 1, <<>>)

(***************************************************************************)
(* Background                                                              *)
(***************************************************************************)

\* get_background_proficiencies: the name given to one proficiency subType.
background_prof_name(subType) ==
    LET prof_name == title(replace(subType, HYPHEN, SP))
    IN  IF Contains(prof_name, THIEVES_TOOLS_PLAIN) THEN THIEVES_TOOLS
        ELSE IF Contains(prof_name, TOOLS)
            THEN replace(prof_name, TOOLS, TOOLS_APOSTROPHE)
        ELSE prof_name

\* The loop of get_background_proficiencies from modifier i on.
RECURSIVE BackgroundProficienciesLoop(_, _, _)
BackgroundProficienciesLoop(background_modifiers, i, proficiencies) ==
    IF i > Len(background_modifiers) THEN Ok(proficiencies)
    ELSE LET modifier == background_modifiers[i]
         IN  IF ~Has(modifier, "type") THEN Raise("KeyError")
             ELSE IF modifier.type = "proficiency"
                 THEN IF ~Has(modifier, "subType") THEN Raise("KeyError")
                      ELSE BackgroundProficienciesLoop(background_modifiers, i + 1,
                               Append(proficiencies,
                                   [name |-> background_prof_name(modifier.subType),
                                    description |->
                                        <<PROFICIENCY_IN
                                            \o background_prof_name(
                                                   modifier.subType)>>]))
             ELSE BackgroundProficienciesLoop(background_modifiers, i + 1,
                                              proficiencies)

\* CharacterParser.get_background_proficiencies()
get_background_proficiencies(d) ==
    IF ~(Has(d, "data") /\ Has(d.data, "modifiers")) THEN Raise("KeyError")
    ELSE BackgroundProficienciesLoop(Get(d.data.modifiers, "background", <<>>),
                                     1, <<>>)

\* get_background: the friendlySubtypeName of the proficiency modifiers
\* from modifier i on.
RECURSIVE FriendlyNamesLoop(_, _, _)
FriendlyNamesLoop(background_mods, i, proficiencies) ==
    IF i > Len(background_mods) THEN Ok(proficiencies)
    ELSE LET mod == background_mods[i]
         IN  IF ~Has(mod, "type") THEN Raise("KeyError")
             ELSE IF mod.type = "proficiency"
                 THEN IF ~Has(mod, "friendlySubtypeName") THEN Raise("KeyError")
                      ELSE FriendlyNamesLoop(background_mods, i + 1,
                               Append(proficiencies, mod.friendlySubtypeName))
             ELSE FriendlyNamesLoop(background_mods, i + 1, proficiencies)

\* [self._clean_text(t.strip()) for t in lines if t.strip()]
RECURSIVE PrivateCleanedStripped(_)
PrivateCleanedStripped(lines) ==
    IF lines = <<>> THEN <<>>
    ELSE IF strip(lines[1]) = <<>> THEN PrivateCleanedStripped(Tail(lines))
    ELSE <<_clean_text(strip(lines[1]))>> \o PrivateCleanedStripped(Tail(lines))

\* `traits_data.get(key)` is truthy.
HasTrait(traits_data, key) == Has(traits_data, key) /\ ~Falsy(traits_data[key])

\* get_background: the traits list.
background_traits(traits_data) ==
    LET personality ==
            IF HasTrait(traits_data, "personalityTraits")
                THEN PrivateCleanedStripped(
                         split_sep(traits_data.personalityTraits, LF))
            ELSE <<>>
        one(trait_type) ==
            IF HasTrait(traits_data, trait_type)
                THEN <<_clean_text(strip(traits_data[trait_type]))>>
            ELSE <<>>
    IN  personality \o one("ideals") \o one("bonds") \o one("flaws")

\* The loop over the lines of traits.appearance in which a line with a
\* colon clears the pending header.
RECURSIVE AppearanceLoopClearingOnColon(_, _, _, _)
AppearanceLoopClearingOnColon(lines, i, current_header, additional_traits) ==
    IF i > Len(lines) THEN additional_traits
    ELSE LET line == strip(lines[i])
         IN  IF line = <<>>
                 THEN AppearanceLoopClearingOnColon(lines, i + 1, current_header,
                                                    additional_traits)
             ELSE IF Contains(line, COLON)
                 THEN AppearanceLoopClearingOnColon(lines, i + 1, None,
                                                    additional_traits)
             ELSE IF Falsy(current_header)
                 THEN AppearanceLoopClearingOnColon(lines, i + 1, line,
                                                    additional_traits)
             ELSE AppearanceLoopClearingOnColon(lines, i + 1, None,
                      Append(additional_traits,
                             current_header \o COLON_SPACE \o line))

\* get_background: the loop over the lines of traits.appearance from line
\* i on; current_header is None or the pending header.
RECURSIVE AppearanceLoop(_, _, _, _)
AppearanceLoop(lines, i, current_header, additional_traits) ==
    IF i > Len(lines) THEN additional_traits
    ELSE LET line == strip(lines[i])
         IN  IF line = <<>>
                 THEN AppearanceLoop(lines, i + 1, current_header,
                                     additional_traits)
             ELSE IF ~Contains(line, COLON) /\ Falsy(current_header)
                 THEN AppearanceLoop(lines, i + 1, line, additional_traits)
             ELSE IF ~Falsy(current_header) /\ ~Contains(line, COLON)
                 THEN AppearanceLoop(lines, i + 1, None,
                          Append(additional_traits,
                                 current_header \o COLON_SPACE \o line))
             ELSE AppearanceLoop(lines, i + 1, current_header,
                                 additional_traits)

\* get_background: the additional_traits list.
background_additional_traits(traits_data) ==
    IF HasTrait(traits_data, "appearance")
        THEN AppearanceLoop(split_sep(traits_data.appearance, LF), 1, None, <<>>)
    ELSE <<>>

\* get_background, from `definition = background_data['definition']` on.
background_record(d, definition) ==
    LET hasBackstory ==
            Has(d.data, "notes") /\ Has(d.data.notes, "backstory")
        backstory ==
            IF hasBackstory THEN _clean_text(d.data.notes.backstory) ELSE None
        traits_data == Get(d.data, "traits", EmptyDict)
    IN  IF ~Has(definition, "shortDescription") THEN Raise("KeyError")
        ELSE IF ~Has(d.data, "modifiers") THEN Raise("KeyError")
        ELSE LET proficiencies ==
                     FriendlyNamesLoop(Get(d.data.modifiers, "background", <<>>),
                                       1, <<>>)
             IN  IF proficiencies.raised THEN proficiencies
                 ELSE IF ~(Has(definition, "name")
                           /\ Has(definition, "featureName")
                           /\ Has(definition, "featureDescription"))
                     THEN Raise("KeyError")
                 ELSE Ok([name |-> definition.name,
                          backstory |->
                              IF Falsy(backstory) THEN <<>> ELSE <<backstory>>,
                          description |->
                              <<_clean_text(definition.shortDescription)>>,
                          background_bonuses |->
                              << [name |-> definition.featureName,
                                  description |->
                                      <<_clean_text(
                                            definition.featureDescription)>>],
                                 [proficiencies |-> sorted(proficiencies.value)],
                                 [traits |-> background_traits(traits_data),
                                  additional_traits |->
                                      background_additional_traits(
                                          traits_data)] >>])

\* CharacterParser.get_background()
get_background(d) ==
    IF ~Has(d, "data") \/ ~Has(d.data, "background") THEN Ok(None)
    ELSE IF ~Has(d.data.background, "definition") THEN Ok(None)
    ELSE background_record(d, d.data.background.definition)

(***************************************************************************)
(* Feats                                                                   *)
(***************************************************************************)

\* get_feats: the categories created for a component id seen first.
EmptyBucket ==
    [ability_bonuses |-> EmptyDict, proficiencies |-> <<>>, features |-> <<>>,
     other |-> <<>>]

\* feat_modifiers with an entry for component_id.
WithBucket(feat_modifiers, component_id) ==
    IF Has(feat_modifiers, component_id) THEN feat_modifiers
    ELSE SetItem(feat_modifiers, component_id, EmptyBucket)

\* get_feats: the loop over data.modifiers.feat from modifier i on.
RECURSIVE FeatModifiersLoop(_, _, _)
FeatModifiersLoop(modifiers, i, feat_modifiers) ==
    IF i > Len(modifiers) THEN Ok(feat_modifiers)
    ELSE LET modifier == modifiers[i]
         IN  IF ~Has(modifier, "componentId") \/ ~Has(modifier, "type")
                 THEN Raise("KeyError")
             ELSE LET component_id == modifier.componentId
                      fm == WithBucket(feat_modifiers, component_id)
                      bucket == fm[component_id]
                  IN  IF modifier.type \in {"bonus", "set"}
                         /\ ~Has(modifier, "subType") THEN Raise("KeyError")
                      ELSE IF modifier.type = "bonus"
                              /\ Contains(modifier.subType, SCORE)
                          THEN IF ~Has(modifier, "value") THEN Raise("KeyError")
                               ELSE FeatModifiersLoop(modifiers, i + 1,
                                      SetItem(fm, component_id,
                                        [bucket EXCEPT !.ability_bonuses =
                                            SetItem(@,
                                                replace(modifier.subType,
                                                        SCORE_SUFFIX, EMPTY),
                                                modifier.value)]))
                      ELSE IF modifier.type = "proficiency"
                          THEN IF ~Has(modifier, "friendlySubtypeName")
                                   THEN Raise("KeyError")
                               ELSE FeatModifiersLoop(modifiers, i + 1,
                                      SetItem(fm, component_id,
                                        [bucket EXCEPT !.proficiencies =
                                            Append(@,
                                                modifier.friendlySubtypeName)]))
                      ELSE IF modifier.type = "set"
                              /\ modifier.subType = UNARMED_DAMAGE_DIE
                          THEN IF ~(Has(modifier, "dice")
                                    /\ Has(modifier.dice, "diceString"))
                                   THEN Raise("KeyError")
                               ELSE FeatModifiersLoop(modifiers, i + 1,
                                      SetItem(fm, component_id,
                                        [bucket EXCEPT !.other =
                                            Append(@,
                                                "unarmed-damage-die"
                                                    :> modifier.dice.diceString)]))
                      ELSE FeatModifiersLoop(modifiers, i + 1, fm)

\* get_feats: the loop over data.actions.feat from action i on.
RECURSIVE FeatActionsLoop(_, _, _)
FeatActionsLoop(actions, i, feat_modifiers) ==
    IF i > Len(actions) THEN Ok(feat_modifiers)
    ELSE LET action == actions[i]
         IN  IF ~Has(action, "componentId") \/ ~Has(action, "snippet")
                 THEN Raise("KeyError")
             ELSE LET component_id == action.componentId
                      fm == WithBucket(feat_modifiers, component_id)
                      bucket == fm[component_id]
                  IN  IF ~Falsy(action.snippet)
                          THEN FeatActionsLoop(actions, i + 1,
                                 SetItem(fm, component_id,
                                   [bucket EXCEPT !.features =
                                       Append(@, strip(action.snippet))]))
                      ELSE FeatActionsLoop(actions, i + 1, fm)

\* get_feats with the four categories of mods emitted whether empty or not.
feat_bonuses_unfiltered(mods) ==
    <<[ability_bonuses |-> mods.ability_bonuses],
      [proficiencies |-> mods.proficiencies],
      [features |-> mods.features],
      [other |-> mods.other]>>

\* get_feats: the non-empty categories of mods, in the fixed order.
feat_bonuses(mods) ==
    (IF DOMAIN mods.ability_bonuses # {}
         THEN <<[ability_bonuses |-> mods.ability_bonuses]>> ELSE <<>>)
    \o (IF mods.proficiencies # <<>>
            THEN <<[proficiencies |-> mods.proficiencies]>> ELSE <<>>)
    \o (IF mods.features # <<>>
            THEN <<[features |-> mods.features]>> ELSE <<>>)
    \o (IF mods.other # <<>> THEN <<[other |-> mods.other]>> ELSE <<>>)

\* get_feats: the feat_info of one feat definition.
feat_info(feat, feat_modifiers) ==
    LET base ==
            [name |-> feat.name,
             description |-> <<clean_text(feat.description)>>]
    IN  IF Has(feat_modifiers, feat.id)
           /\ feat_bonuses(feat_modifiers[feat.id]) # <<>>
            THEN base @@ [feat_bonuses |-> feat_bonuses(feat_modifiers[feat.id])]
        ELSE base @@ [modifiers |-> <<>>]

\* get_feats: the loop over data.feats from feat i on.
RECURSIVE FeatsLoop(_, _, _, _)
FeatsLoop(feats_data, i, feat_modifiers, feats) ==
    IF i > Len(feats_data) THEN Ok(feats)
    ELSE LET feat_data == feats_data[i]
         IN  IF ~Has(feat_data, "definition") THEN Raise("KeyError")
             ELSE IF ~({"name", "description", "id"}
                          \subseteq DOMAIN feat_data.definition)
                 THEN Raise("KeyError")
             ELSE FeatsLoop(feats_data, i + 1, feat_modifiers,
                      Append(feats,
                             feat_info(feat_data.definition, feat_modifiers)))

\* CharacterParser.get_feats()
get_feats(d) ==
    LET hasData == Has(d, "data")
        modifiers ==
            IF hasData /\ Has(d.data, "modifiers")
               /\ Has(d.data.modifiers, "feat")
                THEN d.data.modifiers.feat ELSE <<>>
        actions ==
            IF hasData /\ Has(d.data, "actions") /\ Has(d.data.actions, "feat")
                THEN d.data.actions.feat ELSE <<>>
        feats_data ==
            IF hasData /\ Has(d.data, "feats") THEN d.data.feats ELSE <<>>
        afterModifiers == FeatModifiersLoop(modifiers, 1, EmptyDict)
    IN  IF afterModifiers.raised THEN afterModifiers
        ELSE LET afterActions ==
                     FeatActionsLoop(actions, 1, afterModifiers.value)
             IN  IF afterActions.raised THEN afterActions
                 ELSE FeatsLoop(feats_data, 1, afterActions.value, <<>>)

(***************************************************************************)
(* Spells                                                                  *)
(***************************************************************************)

\* get_spells: the item_map built from the inventory entries from i on.
RECURSIVE ItemMapLoop(_, _, _)
ItemMapLoop(inventory_data, i, item_map) ==
    IF i > Len(inventory_data) THEN Ok(item_map)
    ELSE LET item == inventory_data[i]
         IN  IF Has(item, "definition") /\ Has(item.definition, "id")
                 THEN IF ~Has(item.definition, "name") THEN Raise("KeyError")
                      ELSE ItemMapLoop(inventory_data, i + 1,
                               SetItem(item_map, item.definition.id,
                                       item.definition.name))
             ELSE ItemMapLoop(inventory_data, i + 1, item_map)

\* `x in xs` for a list xs.
InList(x, xs) == \E i \in 1..Len(xs) : xs[i] = x

\* The keys get_spells reads in a spell and in its definition.
SpellWellFormed(spell) ==
    /\ Has(spell, "definition")
    /\ {"description", "duration", "range", "name", "level", "school",
        "concentration", "components", "componentsDescription"}
           \subseteq DOMAIN spell.definition
    /\ {"durationInterval", "durationUnit", "durationType"}
           \subseteq DOMAIN spell.definition.duration
    /\ {"origin", "rangeValue"} \subseteq DOMAIN spell.definition.range
    /\ Has(spell, "activation")
    /\ Has(spell.activation, "activationTime")

\* get_spells: the spell_info of one well-formed spell.
spell_info(spell, item_map) ==
    LET definition == spell.definition
        duration == definition.duration
        interval_unit ==
            format_int(duration.durationInterval) \o SP
                \o lower(duration.durationUnit)
        duration_str ==
            IF duration.durationType = CONCENTRATION
                THEN CONCENTRATION_UP_TO \o interval_unit
            ELSE interval_unit
        range_info == definition.range
        range_str ==
            IF range_info.rangeValue > 0
                THEN format_int(range_info.rangeValue) \o FEET_SUFFIX
            ELSE range_info.origin
        base ==
            [name |-> definition.name,
             level |-> definition.level,
             school |-> definition.school,
             casting_time |->
                 format_int(spell.activation.activationTime) \o ACTION_SUFFIX,
             range |-> range_str,
             duration |-> duration_str,
             concentration |-> definition.concentration,
             description |-> <<_clean_text(definition.description)>>,
             components |->
                 [verbal |-> InList(1, definition.components),
                  somatic |-> InList(2, definition.components),
                  material |-> InList(3, definition.components),
                  materials_needed |->
                      IF InList(3, definition.components)
                          THEN definition.componentsDescription
                      ELSE None]]
    IN  IF Has(spell, "componentId") /\ spell.componentId # 0
           /\ Has(item_map, spell.componentId)
            THEN base @@ [source_item |-> item_map[spell.componentId]]
        ELSE base

\* get_spells: the loop over data.spells.item from spell i on.
RECURSIVE SpellsLoop(_, _, _, _)
SpellsLoop(spell_data, i, item_map, spells) ==
    IF i > Len(spell_data) THEN Ok(spells)
    ELSE IF ~SpellWellFormed(spell_data[i]) THEN Raise("KeyError")
    ELSE SpellsLoop(spell_data, i + 1, item_map,
                    Append(spells, spell_info(spell_data[i], item_map)))

\* a < b for the sort key (x['level'], x['name']).
SpellLess(a, b) ==
    \/ a.level < b.level
    \/ a.level = b.level /\ StrLess(a.name, b.name)

\* The stable insertion of spell x into the sorted list xs.
RECURSIVE InsertSpell(_, _)
InsertSpell(x, xs) ==
    IF xs = <<>> THEN <<x>>
    ELSE IF SpellLess(x, xs[1]) THEN <<x>> \o xs
    ELSE <<xs[1]>> \o InsertSpell(x, Tail(xs))

\* sorted(spells, key=lambda x: (x['level'], x['name']))
RECURSIVE sorted_spells(_)
sorted_spells(spells) ==
    IF spells = <<>> THEN <<>>
    ELSE InsertSpell(spells[Len(spells)],
                     sorted_spells(SubSeq(spells, 1, Len(spells) - 1)))

\* CharacterParser.get_spells()
get_spells(d) ==
    IF ~(Has(d, "data") /\ Has(d.data, "inventory")) THEN Raise("KeyError")
    ELSE LET item_map == ItemMapLoop(d.data.inventory, 1, EmptyDict)
         IN  IF item_map.raised THEN item_map
             ELSE IF ~Has(d.data, "spells") THEN Raise("KeyError")
             ELSE LET spells ==
                          SpellsLoop(Get(d.data.spells, "item", <<>>), 1,
                                     item_map.value, <<>>)
                  IN  IF spells.raised THEN spells
                      ELSE Ok(sorted_spells(spells.value))

(***************************************************************************)
(* parse                                                                   *)
(***************************************************************************)

\* The sections of the record parse() builds, in the order of the dict
\* literal.
Sections ==
    <<"player_username", "character_name", "characteristics", "stats", "race",
      "classes", "feats", "background", "spells", "inventory">>

\* The call that computes section k of parse().
SectionCall(d, k) ==
    CASE k = 1 -> get_username(d)
      [] k = 2 -> get_name(d)
      [] k = 3 -> get_characteristics(d)
      [] k = 4 -> get_stats(d)
      [] k = 5 -> get_race(d)
      [] k = 6 -> get_classes(d)
      [] k = 7 -> get_feats(d)
      [] k = 8 -> get_background(d)
      [] k = 9 -> get_spells(d)
      [] k = 10 -> get_inventory(d)

\* parse() with a section left out of the record when its value is null.
RECURSIVE ParseFromOmittingNull(_, _, _)
ParseFromOmittingNull(d, k, record) ==
    IF k > Len(Sections) THEN Ok(record)
    ELSE LET section == SectionCall(d, k)
         IN  IF section.raised THEN section
             ELSE IF Sections[k] = "background"
                     /\ ~(Has(d.data, "background")
                          /\ Has(d.data.background, "definition"))
                 THEN ParseFromOmittingNull(d, k + 1, record)
             ELSE ParseFromOmittingNull(d, k + 1,
                      SetItem(record, Sections[k], section.value))

\* parse() from section k on; record holds the sections evaluated so far.
\* The values of the dict literal are evaluated in order: the first call
\* that raises ends parse() with that exception, and the record exists only
\* when all ten calls have returned.
RECURSIVE ParseFrom(_, _, _)
ParseFrom(d, k, record) ==
    IF k > Len(Sections) THEN Ok(record)
    ELSE LET section == SectionCall(d, k)
         IN  IF section.raised THEN section
             ELSE ParseFrom(d, k + 1, SetItem(record, Sections[k], section.value))

\* CharacterParser.parse()
parse(d) == ParseFrom(d, 1, EmptyDict)

(***************************************************************************)
(* The loaded tree                                                         *)
(***************************************************************************)

\* 'Miriam Hopps'
NAME_MIRIAM == <<77, 105, 114, 105, 97, 109, 32, 72, 111, 112, 112, 115>>
\* 'whitneyowilkinson'
USER_WHITNEY ==
    <<119, 104, 105, 116, 110, 101, 121, 111, 119, 105, 108, 107, 105, 110, 115,
      111, 110>>
\* 'Variant Human'
RACE_VARIANT_HUMAN == <<86, 97, 114, 105, 97, 110, 116, 32, 72, 117, 109, 97, 110>>
\* 'Rope'
ITEM_ROPE == <<82, 111, 112, 101>>

\* 'Female'
FEMALE == <<70, 101, 109, 97, 108, 101>>
\* 'Chauntea'
CHAUNTEA == <<67, 104, 97, 117, 110, 116, 101, 97>>
\* 'Brown'
BROWN == <<66, 114, 111, 119, 110>>
\* 'White'
WHITE == <<87, 104, 105, 116, 101>>
\* '6\'0"'
HEIGHT_6_0 == <<54, 39, 48, 34>>
\* 'Fighter'
FIGHTER == <<70, 105, 103, 104, 116, 101, 114>>
\* 'Second Wind'
SECOND_WIND == <<83, 101, 99, 111, 110, 100, 32, 87, 105, 110, 100>>
\* 'Extra Attack'
EXTRA_ATTACK == <<69, 120, 116, 114, 97, 32, 65, 116, 116, 97, 99, 107>>
\* '<p>You regain hit points</p>'
SECOND_WIND_TEXT ==
    <<60, 112, 62, 89, 111, 117, 32, 114, 101, 103, 97, 105, 110, 32, 104,
    105, 116, 32, 112, 111, 105, 110, 116, 115, 60, 47, 112, 62>>
\* 'Echo Knight'
ECHO_KNIGHT == <<69, 99, 104, 111, 32, 75, 110, 105, 103, 104, 116>>
\* '<p>You can use a bonus action</p>'
MANIFEST_ECHO_TEXT ==
    <<60, 112, 62, 89, 111, 117, 32, 99, 97, 110, 32, 117, 115, 101, 32, 97,
    32, 98, 111, 110, 117, 115, 32, 97, 99, 116, 105, 111, 110, 60, 47, 112,
    62>>
\* 'Thrown Weapon Fighting'
THROWN_WEAPON_FIGHTING ==
    <<84, 104, 114, 111, 119, 110, 32, 87, 101, 97, 112, 111, 110, 32, 70,
    105, 103, 104, 116, 105, 110, 103>>
\* 'light-armor'
LIGHT_ARMOR == <<108, 105, 103, 104, 116, 45, 97, 114, 109, 111, 114>>

\* One data.stats entry.
Stat(id, value) == [id |-> id, value |-> value]

\* One entry of a classFeatures list.
Feature(name, requiredLevel, description) ==
    [name |-> name, requiredLevel |-> requiredLevel, description |-> description]

\* A well-formed tree: the characteristics, stats, class and subclass of
\* the character the tests load (a level-4 Fighter, Echo Knight, with the
\* Thrown Weapon Fighting style), no race modifiers, no feats, no
\* background, no spells and an empty inventory.
BaseTree ==
    [data |->
        [name |-> NAME_MIRIAM,
         username |-> USER_WHITNEY,
         gender |-> FEMALE,
         faith |-> CHAUNTEA,
         age |-> 20,
         hair |-> BROWN,
         eyes |-> BROWN,
         skin |-> WHITE,
         height |-> HEIGHT_6_0,
         weight |-> 200,
         stats |-> <<Stat(1, 18), Stat(2, 18), Stat(3, 18), Stat(4, 9),
                     Stat(5, 13), Stat(6, 15)>>,
         race |-> [fullName |-> RACE_VARIANT_HUMAN],
         modifiers |->
             [race |-> <<>>,
              class |-> <<[type |-> "proficiency", subType |-> LIGHT_ARMOR]>>],
         classes |->
             << [level |-> 4,
                 definition |->
                     [name |-> FIGHTER,
                      classFeatures |->
                          <<Feature(SECOND_WIND, 1, SECOND_WIND_TEXT),
                            Feature(HIT_POINTS, 1, EMPTY),
                            Feature(EXTRA_ATTACK, 5, EMPTY)>>],
                 subclassDefinition |->
                     [name |-> ECHO_KNIGHT,
                      classFeatures |->
                          <<Feature(MANIFEST_ECHO, 3, MANIFEST_ECHO_TEXT),
                            Feature(ECHO_AVATAR, 7, EMPTY)>>]] >>,
         options |->
             [class |->
                 <<[componentId |-> FIGHTING_STYLE_COMPONENT,
                    definition |-> [name |-> THROWN_WEAPON_FIGHTING]]>>],
         feats |-> <<>>,
         spells |-> [item |-> <<>>],
         inventory |-> <<>>]]

\* One data.inventory entry whose definition carries `description`.
ItemDescribed(name, description) ==
    [definition |-> [id |-> 1, name |-> name, description |-> description],
     quantity |-> 1]

\* The output file when it does not exist; `writes` counts the times this
\* run has opened it for writing.
NoFile == [exists |-> FALSE, content |-> EmptyDict, writes |-> 0]

\* The input file that holds the JSON text of this tree.
InputFile(tree) ==
    [exists |-> TRUE, suffix |-> ".json", json |-> TRUE, tree |-> tree]

\* The call history and the command-line run of a caller that has called
\* nothing yet and is not main().
Idle ==
    /\ loaded = data
    /\ first = EmptyDict
    /\ locals = EmptyDict
    /\ file = NoFile
    /\ printed = <<>>
    /\ exit = "running"
    /\ input = InputFile(data)

(***************************************************************************)
(* Text cleaning: inputs and calls                                         *)
(***************************************************************************)

\* Number of fragments a built input is made of.
MaxFrags == 3

\* Fragments of the documented vocabulary: an ordinary character,
\* whitespace, tags, an entity, a code point, and pieces of a tag and of
\* an entity.
Fragments ==
    { <<97>>,                \* 'a'
      SP, LF, CR,
      <<160>>,               \* U+00A0
      TAG_P, TAG_BR, TAG_LI,
      <<60, 98, 114, 32>>,   \* '<br '
      <<47, 62>>,            \* '/>'
      ENT_NBSP,
      <<38, 110, 98>>,       \* '&nb'
      <<115, 112, 59>> }     \* 'sp;'

\* The strings made of at most n fragments of frags.
RECURSIVE Built(_, _)
Built(frags, n) ==
    IF n = 0 THEN {<<>>}
    ELSE LET shorter == Built(frags, n - 1)
         IN  shorter \cup {f \o s : f \in frags, s \in shorter}

\* '<p class="Core-Styles_Core-Body">Test <em>text</em> with <strong>tags</strong></p>'
EXAMPLE_TAGS ==
    TAG_P_BODY \o
    <<84, 101, 115, 116, 32, 60, 101, 109, 62, 116, 101, 120, 116, 60, 47, 101,
      109, 62, 32, 119, 105, 116, 104, 32, 60, 115, 116, 114, 111, 110, 103, 62,
      116, 97, 103, 115, 60, 47, 115, 116, 114, 111, 110, 103, 62, 60, 47, 112,
      62>>
\* 'Test text with tags'
EXAMPLE_TAGS_CLEAN ==
    <<84, 101, 115, 116, 32, 116, 101, 120, 116, 32, 119, 105, 116, 104, 32, 116,
      97, 103, 115>>
\* 'Line 1\nLine 2\r\nLine 3\rLine 4'
EXAMPLE_LINES ==
    <<76, 105, 110, 101, 32, 49, 10, 76, 105, 110, 101, 32, 50, 13, 10, 76, 105,
      110, 101, 32, 51, 13, 76, 105, 110, 101, 32, 52>>

\* The documented named entities and code points with their plain
\* equivalents.
Documented ==
    { <<ENT_LDQUO, DQUOTE>>, <<ENT_RDQUO, DQUOTE>>, <<ENT_LSQUO, SQUOTE>>,
      <<ENT_RSQUO, SQUOTE>>, <<ENT_MDASH, HYPHEN>>, <<ENT_NBSP, SP>>,
      <<(<<8216>>), SQUOTE>>, <<(<<8217>>), SQUOTE>>, <<(<<8220>>), DQUOTE>>,
      <<(<<8221>>), DQUOTE>>, <<(<<8212>>), HYPHEN>>, <<(<<8211>>), HYPHEN>>,
      <<(<<8230>>), DOTS>>, <<(<<160>>), SP>> }

\* 'a' + x + 'b'
Flanked(x) == <<97>> \o x \o <<98>>

TextInputs ==
    Built(Fragments, MaxFrags)
        \cup {None, EXAMPLE_TAGS, EXAMPLE_LINES}
        \cup {Flanked(p[1]) : p \in Documented}

InitText ==
    /\ text \in TextInputs
    /\ data = [BaseTree EXCEPT !.data.inventory = <<ItemDescribed(ITEM_ROPE, text)>>]
    /\ fn = "none"
    /\ pc = "start"
    /\ cleaned = EMPTY
    /\ recleaned = EMPTY
    /\ result = Ok(None)
    /\ Idle

\* A caller invokes parser.clean_text(text).
CallCleanText ==
    /\ pc = "start"
    /\ cleaned' = clean_text(text)
    /\ fn' = "clean_text"
    /\ pc' = "once"
    /\ UNCHANGED <<data, text, recleaned, result>>
    /\ UNCHANGED others

\* A caller invokes parser._clean_text(text).
CallPrivateCleanText ==
    /\ pc = "start"
    /\ cleaned' = _clean_text(text)
    /\ fn' = "_clean_text"
    /\ pc' = "once"
    /\ UNCHANGED <<data, text, recleaned, result>>
    /\ UNCHANGED others

\* The caller applies the same operation to the value it returned.
Reclean ==
    /\ pc = "once"
    /\ recleaned' = IF fn = "clean_text" THEN clean_text(cleaned)
                                         ELSE _clean_text(cleaned)
    /\ pc' = "twice"
    /\ UNCHANGED <<data, text, fn, cleaned, result>>
    /\ UNCHANGED others

\* A caller invokes parser.get_inventory().
CallGetInventory ==
    /\ pc = "start"
    /\ result' = get_inventory(data)
    /\ fn' = "get_inventory"
    /\ pc' = "returned"
    /\ UNCHANGED <<data, text, cleaned, recleaned>>
    /\ UNCHANGED others

NextText == CallCleanText \/ CallPrivateCleanText \/ Reclean \/ CallGetInventory

SpecText == InitText /\ [][NextText]_vars

(***************************************************************************)
(* Ability scores: inputs and calls                                        *)
(***************************************************************************)

\* Length of the data.stats sequences that are enumerated in full.
MaxStats == 3

\* The ids of the stat_names table.
StatIds == DOMAIN stat_names

\* Ids outside the table.
UnknownIds == {0, 7}

\* The bijections of S.
Permutations6 == {p \in [StatIds -> StatIds] : \A i, j \in StatIds : p[i] = p[j] => i = j}

\* Scores by id: those of the documented example, and six distinct scores.
Valuations == { <<18, 18, 18, 9, 13, 15>>, <<8, 10, 12, 14, 16, 20>> }

\* One entry for each id of the table, in any order.
CompleteStats ==
    { [k \in StatIds |-> Stat(p[k], v[p[k]])] : p \in Permutations6, v \in Valuations }

\* The 18,18,18,9,13,15 sequence with the entry at position k given an
\* unknown id.
OffendingStats ==
    { [BaseTree.data.stats EXCEPT ![k].id = bad] : k \in StatIds, bad \in UnknownIds }

\* Every sequence of at most MaxStats entries over known and unknown ids.
ShortStats ==
    UNION { { [k \in 1..n |-> Stat(ids[k], 10 + k)] :
                ids \in [1..n -> StatIds \cup UnknownIds] } : n \in 0..MaxStats }

StatsInputs == CompleteStats \cup OffendingStats \cup ShortStats

\* Some entry of this data.stats has an id outside the table.
HasUnknownId(stats_list) == \E k \in 1..Len(stats_list) : stats_list[k].id \notin StatIds

\* This data.stats has exactly one entry for each id of the table.
IsComplete(stats_list) ==
    /\ Len(stats_list) = Cardinality(StatIds)
    /\ \A id \in StatIds : \E k \in 1..Len(stats_list) : stats_list[k].id = id

InitStats ==
    /\ \E s \in StatsInputs : data = [BaseTree EXCEPT !.data.stats = s]
    /\ text = EMPTY
    /\ fn = "none"
    /\ pc = "start"
    /\ cleaned = EMPTY
    /\ recleaned = EMPTY
    /\ result = Ok(None)
    /\ Idle

\* A caller invokes parser.get_stats().
CallGetStats ==
    /\ pc = "start"
    /\ result' = get_stats(data)
    /\ fn' = "get_stats"
    /\ pc' = "returned"
    /\ UNCHANGED <<data, text, cleaned, recleaned>>
    /\ UNCHANGED others

\* A caller invokes parser.parse().
CallParse ==
    /\ pc = "start"
    /\ result' = parse(data)
    /\ fn' = "parse"
    /\ pc' = "returned"
    /\ UNCHANGED <<data, text, cleaned, recleaned>>
    /\ UNCHANGED others

NextStats == CallGetStats \/ CallParse

SpecStats == InitStats /\ [][NextStats]_vars

(***************************************************************************)
(* Race: inputs and calls                                                  *)
(***************************************************************************)

\* Length of the data.modifiers.race sequences.
MaxMods == 3

\* 'common'
SUB_COMMON == <<99, 111, 109, 109, 111, 110>>
\* 'elvish'
SUB_ELVISH == <<101, 108, 118, 105, 115, 104>>
\* 'elVish'
SUB_ELVISH_MIXED == <<101, 108, 86, 105, 115, 104>>
\* 'strength-score'
SUB_STRENGTH_SCORE ==
    <<115, 116, 114, 101, 110, 103, 116, 104, 45, 115, 99, 111, 114, 101>>
\* 'dexterity-score'
SUB_DEXTERITY_SCORE ==
    <<100, 101, 120, 116, 101, 114, 105, 116, 121, 45, 115, 99, 111, 114, 101>>
\* 'strength-score-score'
SUB_STRENGTH_SCORE_SCORE ==
    <<115, 116, 114, 101, 110, 103, 116, 104, 45, 115, 99, 111, 114, 101, 45, 115,
      99, 111, 114, 101>>
\* 'strength'
SUB_STRENGTH == <<115, 116, 114, 101, 110, 103, 116, 104>>

\* One data.modifiers.race entry.
Modifier(type, subType, value) == [type |-> type, subType |-> subType, value |-> value]

\* The race modifiers of the model: languages and proficiencies whose
\* subTypes differ in letter case only, one of each without subType,
\* bonuses with and without the '-score' suffix, and another type.
RaceModifiers ==
    { Modifier(type, s, 0) :
          type \in {"language", "proficiency"},
          s \in {SUB_COMMON, SUB_ELVISH, SUB_ELVISH_MIXED} }
        \cup { [type |-> "proficiency", value |-> 0],
               [type |-> "language", value |-> 0] }
        \cup { Modifier("bonus", SUB_STRENGTH_SCORE, 1),
               Modifier("bonus", SUB_STRENGTH_SCORE, 2),
               Modifier("bonus", SUB_DEXTERITY_SCORE, 1),
               Modifier("bonus", SUB_STRENGTH_SCORE_SCORE, 1),
               Modifier("bonus", SUB_STRENGTH, 1),
               Modifier("set", SUB_COMMON, 1) }

RaceInputs == UNION { [1..n -> RaceModifiers] : n \in 0..MaxMods }

InitRace ==
    /\ \E m \in RaceInputs : data = [BaseTree EXCEPT !.data.modifiers.race = m]
    /\ text = EMPTY
    /\ fn = "none"
    /\ pc = "start"
    /\ cleaned = EMPTY
    /\ recleaned = EMPTY
    /\ result = Ok(None)
    /\ Idle

\* A caller invokes parser.get_languages().
CallGetLanguages ==
    /\ pc = "start"
    /\ result' = get_languages(data)
    /\ fn' = "get_languages"
    /\ pc' = "returned"
    /\ UNCHANGED <<data, text, cleaned, recleaned>>
    /\ UNCHANGED others

\* A caller invokes parser.get_racial_skills().
CallGetRacialSkills ==
    /\ pc = "start"
    /\ result' = get_racial_skills(data)
    /\ fn' = "get_racial_skills"
    /\ pc' = "returned"
    /\ UNCHANGED <<data, text, cleaned, recleaned>>
    /\ UNCHANGED others

\* A caller invokes parser.get_racial_bonuses().
CallGetRacialBonuses ==
    /\ pc = "start"
    /\ result' = get_racial_bonuses(data)
    /\ fn' = "get_racial_bonuses"
    /\ pc' = "returned"
    /\ UNCHANGED <<data, text, cleaned, recleaned>>
    /\ UNCHANGED others

\* A caller invokes parser.get_race().
CallGetRace ==
    /\ pc = "start"
    /\ result' = get_race(data)
    /\ fn' = "get_race"
    /\ pc' = "returned"
    /\ UNCHANGED <<data, text, cleaned, recleaned>>
    /\ UNCHANGED others

NextRace == CallGetLanguages \/ CallGetRacialSkills \/ CallGetRacialBonuses \/ CallGetRace

SpecRace == InitRace /\ [][NextRace]_vars

(***************************************************************************)
(* Claims about text cleaning                                              *)
(***************************************************************************)

\* C1: both cleaning operations are idempotent: applying an operation to
\* its own output returns that output.
C1_Idempotent == pc = "twice" => recleaned = cleaned

\* The tags the contract names as recognized.
RecognizedTags ==
    { TAG_P, TAG_P_END, TAG_EM, TAG_EM_END, TAG_STRONG, TAG_STRONG_END, TAG_BR,
      TAG_UL, TAG_UL_END, TAG_LI, TAG_LI_END, TAG_P_BODY, TAG_P_BODY_EXTRA,
      TAG_SPAN_NOBREAK, TAG_SPAN_BOLD, TAG_SPAN_ITALIC, TAG_SPAN_END,
      TAG_DIV_MASTERY, TAG_DIV_END, TAG_HR }

\* C2: the output of each cleaning operation contains no recognized tag, and
\* the documented example cleans to 'Test text with tags'.
C2_TagsRemoved ==
    pc = "once" =>
        /\ \A tag \in RecognizedTags : ~Contains(cleaned, tag)
        /\ text = EXAMPLE_TAGS => cleaned = EXAMPLE_TAGS_CLEAN

\* The trimmed non-empty lines of s[i:], in order.
RECURSIVE TrimmedLines(_, _)
TrimmedLines(s, i) ==
    IF i > Len(s) THEN <<>>
    ELSE LET e == Min({j \in i..(Len(s) + 1) : j = Len(s) + 1 \/ s[j] = 10})
             line == strip(SubSeq(s, i, e - 1))
         IN  (IF line = <<>> THEN <<>> ELSE <<line>>) \o TrimmedLines(s, e + 1)

\* Multi-line mode on a text of ordinary characters, '<br />' and '<li>'.
MultiLineMode(t) ==
    join(LF, TrimmedLines(replace(replace(t, TAG_BR, LF), TAG_LI, BULLET), 1))

\* Single-line mode on a text of ordinary characters and '<br />'.
SingleLineMode(t) == join(SP, split(replace(t, TAG_BR, SP)))

\* The cleaning call of this state behaves as the claim says when m is the
\* multi-line operation and the other operation the single-line one.
ModesWith(m) ==
    IF fn = m THEN cleaned = MultiLineMode(text)
    ELSE ~Contains(text, TAG_LI) => cleaned = SingleLineMode(text)

\* C3: one of clean_text and _clean_text is the multi-line mode ('<br />'
\* becomes a newline, '<li>' a bullet glyph, trimmed non-empty lines joined
\* by newlines) and the other the single-line mode ('<br />' becomes one
\* space). Stated for the texts made of 'a', '<br />' and '<li>'.
C3_TwoModes ==
    (pc = "once" /\ text \in Built({<<97>>, TAG_BR, TAG_LI}, MaxFrags)) =>
        ModesWith("clean_text") \/ ModesWith("_clean_text")

\* C4: no documented entity or code point occurs in the output of a
\* cleaning operation, and each one alone is replaced by its plain
\* equivalent.
C4_EntitiesReplaced ==
    pc = "once" =>
        \A p \in Documented :
            /\ ~Contains(cleaned, p[1])
            /\ text = Flanked(p[1]) => cleaned = join(SP, split(Flanked(p[2])))

\* s has no line break, no two consecutive spaces and no whitespace at
\* either end.
Normalized(s) ==
    /\ \A i \in 1..Len(s) : s[i] # 10 /\ s[i] # 13
    /\ \A i \in 1..(Len(s) - 1) : ~(s[i] = 32 /\ s[i + 1] = 32)
    /\ s # <<>> => ~IsSpace(s[1]) /\ ~IsSpace(s[Len(s)])

\* C5: the output of clean_text and of _clean_text is whitespace-normalized,
\* an empty or absent input yields the empty string, and every inventory
\* item's description is normalized as well.
C5_SingleLineNormalized ==
    /\ pc = "once" => Normalized(cleaned) /\ (Falsy(text) => cleaned = EMPTY)
    /\ pc = "returned" =>
           /\ ~result.raised
           /\ \A i \in 1..Len(result.value) : Normalized(result.value[i].description)

\* A cleaning call on a text with leading whitespace, a line break and
\* something left to return.
C5_Witness ==
    /\ pc = "once"
    /\ text # None /\ text # <<>>
    /\ IsSpace(text[1])
    /\ Contains(text, LF)
    /\ cleaned # EMPTY

(***************************************************************************)
(* Claims about ability scores                                             *)
(***************************************************************************)

\* The fixed ability-name sequence of the data model.
AbilityOrder ==
    <<"strength", "dexterity", "constitution", "intelligence", "wisdom", "charisma">>

\* The value of the entry of stats_list whose id is `id`.
ValueOfId(stats_list, id) ==
    stats_list[CHOOSE k \in 1..Len(stats_list) : stats_list[k].id = id].value

\* get_stats has returned or raised.
StatsReturned == pc = "returned" /\ fn = "get_stats"

\* C6: for a data.stats with one entry for each id in 1..6, in any order,
\* get_stats returns exactly the mapping from the name at position id to
\* that entry's value; values 18,18,18,9,13,15 yield the documented mapping.
C6_StatsMapping ==
    (StatsReturned /\ IsComplete(data.data.stats)) =>
        /\ ~result.raised
        /\ result.value =
               [n \in {AbilityOrder[i] : i \in 1..6} |->
                   ValueOfId(data.data.stats,
                             CHOOSE i \in 1..6 : AbilityOrder[i] = n)]
        /\ (\A k \in 1..6 : data.data.stats[k].value
                                = <<18, 18, 18, 9, 13, 15>>[data.data.stats[k].id])
               => result.value = [strength |-> 18, dexterity |-> 18,
                                  constitution |-> 18, intelligence |-> 9,
                                  wisdom |-> 13, charisma |-> 15]

\* get_stats has returned the documented mapping for entries that did not
\* come in id order.
C6_Witness ==
    /\ StatsReturned
    /\ IsComplete(data.data.stats)
    /\ data.data.stats[1].id = 6
    /\ data.data.stats[6].id = 4
    /\ ~result.raised
    /\ result.value = [strength |-> 18, dexterity |-> 18, constitution |-> 18,
                       intelligence |-> 9, wisdom |-> 13, charisma |-> 15]

\* get_stats, or parse, has returned or raised.
StatsOrParseReturned == pc = "returned" /\ fn \in {"get_stats", "parse"}

\* C7: if any entry of data.stats has an id outside 1..6, wherever it sits,
\* get_stats fails with the unknown-id error (the KeyError of the stat_names
\* lookup) and returns no mapping, not even a partial one; parse() fails
\* with the same error and produces no record.
C7_UnknownIdFails ==
    (StatsOrParseReturned /\ HasUnknownId(data.data.stats)) =>
        /\ result.raised
        /\ result.exc = "KeyError"
        /\ result.value = None

\* parse() has failed on a data.stats whose only unknown id is in its last
\* entry, after five entries that get_stats had mapped.
C7_Witness ==
    /\ pc = "returned"
    /\ fn = "parse"
    /\ Len(data.data.stats) = 6
    /\ \A k \in 1..5 : data.data.stats[k].id \in StatIds
    /\ data.data.stats[6].id \notin StatIds
    /\ result.raised
    /\ result.exc = "KeyError"

(***************************************************************************)
(* Claims about race                                                       *)
(***************************************************************************)

\* get_languages or get_racial_skills has returned a list.
ListReturned ==
    /\ pc = "returned"
    /\ fn \in {"get_languages", "get_racial_skills"}
    /\ ~result.raised

\* The positions of the race modifiers the called extractor takes its
\* elements from.
Selected ==
    LET mods == data.data.modifiers.race
        type == IF fn = "get_languages" THEN "language" ELSE "proficiency"
    IN  {k \in 1..Len(mods) : mods[k].type = type /\ Has(mods[k], "subType")}

SelectedSubTypes == {data.data.modifiers.race[k].subType : k \in Selected}

\* a <= b in lexicographic order.
LexLeq(a, b) ==
    LET differ == {i \in 1..Len(a) : i <= Len(b) /\ a[i] # b[i]}
    IN  IF differ = {} THEN Len(a) <= Len(b)
        ELSE a[Min(differ)] < b[Min(differ)]

Ascending(xs) == \A i \in 1..(Len(xs) - 1) : LexLeq(xs[i], xs[i + 1])

Range(xs) == {xs[i] : i \in 1..Len(xs)}

\* s with its upper-case letters replaced by the lower-case ones.
FoldCase(s) == [i \in 1..Len(s) |-> IF s[i] >= 65 /\ s[i] <= 90 THEN s[i] + 32 ELSE s[i]]

Count(xs, x) == Cardinality({i \in 1..Len(xs) : xs[i] = x})

\* The returned names are those of `names`, a function of the subType, one
\* for each selected modifier.
NamesAre(names) ==
    /\ Len(result.value) = Cardinality(Selected)
    /\ \A s \in SelectedSubTypes :
           Count(result.value, names[s])
               = Cardinality({k \in Selected :
                                names[data.data.modifiers.race[k].subType] = names[s]})

\* s with its first letter upper-cased and every other character unchanged.
UpperFirst(s) ==
    [i \in 1..Len(s) |-> IF i = 1 /\ s[i] >= 97 /\ s[i] <= 122 THEN s[i] - 32 ELSE s[i]]

\* s with its first letter upper-cased and every other letter lower-cased.
UpperFirstLowerRest(s) ==
    [i \in 1..Len(s) |-> IF i = 1 THEN UpperFirst(s)[1] ELSE FoldCase(s)[i]]

ScoreBonuses ==
    LET mods == data.data.modifiers.race
    IN  {k \in 1..Len(mods) :
            /\ mods[k].type = "bonus"
            /\ Len(mods[k].subType) >= 6
            /\ SubSeq(mods[k].subType, Len(mods[k].subType) - 5, Len(mods[k].subType))
                   = <<45, 115, 99, 111, 114, 101>>}

\* The subType of modifier k without its last six characters.
SuffixStripped(k) ==
    SubSeq(data.data.modifiers.race[k].subType, 1,
           Len(data.data.modifiers.race[k].subType) - 6)

\* C10: get_racial_bonuses returns the mapping with an entry exactly for
\* each bonus modifier whose subType ends in '-score', keyed by the subType
\* with that trailing suffix and nothing else stripped, the last modifier
\* of a key giving its value.
C10_BonusesBySuffix ==
    (pc = "returned" /\ fn = "get_racial_bonuses" /\ ~result.raised) =>
        result.value =
            [key \in {SuffixStripped(k) : k \in ScoreBonuses} |->
                data.data.modifiers.race[
                    Max({k \in ScoreBonuses : SuffixStripped(k) = key})].value]

(***************************************************************************)
(* Classes: inputs and calls                                               *)
(***************************************************************************)

\* 'Action Surge'
ACTION_SURGE == <<65, 99, 116, 105, 111, 110, 32, 83, 117, 114, 103, 101>>
\* 'Proficiency Bonus'
PROFICIENCY_BONUS ==
    <<80, 114, 111, 102, 105, 99, 105, 101, 110, 99, 121, 32, 66, 111, 110,
    117, 115>>
\* 'Bonus Proficiency'
BONUS_PROFICIENCY ==
    <<66, 111, 110, 117, 115, 32, 80, 114, 111, 102, 105, 99, 105, 101, 110,
    99, 121>>
\* 'Ghost Walk'
GHOST_WALK == <<71, 104, 111, 115, 116, 32, 87, 97, 108, 107>>
\* 'Wizard'
WIZARD == <<87, 105, 122, 97, 114, 100>>
\* 'Archery'
ARCHERY == <<65, 114, 99, 104, 101, 114, 121>>
\* '<p>You gain</p>\n<p>a&nbsp;benefit</p>'
FEATURE_TEXT ==
    <<60, 112, 62, 89, 111, 117, 32, 103, 97, 105, 110, 60, 47, 112, 62, 10,
    60, 112, 62, 97, 38, 110, 98, 115, 112, 59, 98, 101, 110, 101, 102, 105,
    116, 60, 47, 112, 62>>

\* Length of the classFeatures, subclass classFeatures and options.class
\* sequences that are enumerated in full.
MaxFeatures == 2

\* The class levels of the rules.
Levels == 1..20

\* Entries of a class definition's classFeatures: features kept at some
\* level, one for each excluded name, and names with 'Proficiency' at the
\* start and further on.
ClassFeaturePool ==
    { Feature(SECOND_WIND, 1, FEATURE_TEXT),
      Feature(ACTION_SURGE, 2, FEATURE_TEXT),
      Feature(EXTRA_ATTACK, 5, FEATURE_TEXT),
      Feature(PROFICIENCY_BONUS, 1, FEATURE_TEXT),
      Feature(BONUS_PROFICIENCY, 1, FEATURE_TEXT) }
        \cup { Feature(name, 1, FEATURE_TEXT) : name \in excluded_features }

\* The six Echo Knight features with the levels the rules give them.
EchoKnightFeatures ==
    << Feature(MANIFEST_ECHO, 3, FEATURE_TEXT),
       Feature(UNLEASH_INCARNATION, 3, FEATURE_TEXT),
       Feature(ECHO_AVATAR, 7, FEATURE_TEXT),
       Feature(SHADOW_MARTYR, 10, FEATURE_TEXT),
       Feature(RECLAIM_POTENTIAL, 15, FEATURE_TEXT),
       Feature(LEGION_OF_ONE, 18, FEATURE_TEXT) >>

\* Entries of a subclass definition's classFeatures: Echo Knight features
\* (one of them with another requiredLevel than the rules give it), a
\* feature of another subclass, and a feature with an excluded name.
SubclassFeaturePool ==
    { Feature(MANIFEST_ECHO, 3, FEATURE_TEXT),
      Feature(ECHO_AVATAR, 7, FEATURE_TEXT),
      Feature(ECHO_AVATAR, 3, FEATURE_TEXT),
      Feature(GHOST_WALK, 3, FEATURE_TEXT),
      Feature(FIGHTING_STYLE, 1, FEATURE_TEXT) }

\* One data.options.class entry.
Option(componentId, name) ==
    [componentId |-> componentId, definition |-> [name |-> name]]

\* Entries of data.options.class: fighting styles, a Fighting Style option
\* that carries the name of its category, one whose name holds
\* 'Proficiency', and an option of another component.
OptionPool ==
    { Option(FIGHTING_STYLE_COMPONENT, THROWN_WEAPON_FIGHTING),
      Option(FIGHTING_STYLE_COMPONENT, FIGHTING_STYLE),
      Option(FIGHTING_STYLE_COMPONENT, BONUS_PROFICIENCY),
      Option(0, ARCHERY) }

\* The sequences of at most n elements of S.
SeqsUpTo(S, n) == UNION { [1..k -> S] : k \in 0..n }

\* One data.classes entry without a subclass.
ClassInfo(name, level, classFeatures) ==
    [level |-> level,
     definition |-> [name |-> name, classFeatures |-> classFeatures]]

\* One data.classes entry with the subclass Echo Knight.
ClassInfoSub(name, level, classFeatures, subclassFeatures) ==
    [level |-> level,
     definition |-> [name |-> name, classFeatures |-> classFeatures],
     subclassDefinition |->
         [name |-> ECHO_KNIGHT, classFeatures |-> subclassFeatures]]

\* BaseTree with these classes and class options.
TreeWithClasses(classes, options) ==
    [BaseTree EXCEPT !.data.classes = classes, !.data.options.class = options]

\* The trees of the class claims:
\*  - one class without subclass, every short classFeatures sequence and at
\*    most one option, at a level below and a level above the gates;
\*  - the Fighter of BaseTree with every short options sequence;
\*  - the six Echo Knight features at every level;
\*  - every short subclass classFeatures sequence at the levels around the
\*    gates;
\*  - two classes, and no class.
ClassTrees ==
    { TreeWithClasses(<<ClassInfo(FIGHTER, level, fs)>>, os) :
          level \in {1, 4}, fs \in SeqsUpTo(ClassFeaturePool, MaxFeatures),
          os \in SeqsUpTo(OptionPool, 1) }
      \cup { TreeWithClasses(BaseTree.data.classes, os) :
                 os \in SeqsUpTo(OptionPool, MaxFeatures) }
      \cup { TreeWithClasses(
                 <<ClassInfoSub(FIGHTER, level, <<>>, EchoKnightFeatures)>>, <<>>) :
                 level \in Levels }
      \cup { TreeWithClasses(<<ClassInfoSub(FIGHTER, level, <<>>, fs)>>, <<>>) :
                 level \in {2, 3, 6, 7},
                 fs \in SeqsUpTo(SubclassFeaturePool, MaxFeatures) }
      \cup { TreeWithClasses(
                 <<ClassInfoSub(FIGHTER, 4, <<Feature(SECOND_WIND, 1, FEATURE_TEXT)>>,
                                EchoKnightFeatures),
                   ClassInfo(WIZARD, 1, <<Feature(HIT_POINTS, 1, FEATURE_TEXT)>>)>>,
                 <<Option(FIGHTING_STYLE_COMPONENT, THROWN_WEAPON_FIGHTING)>>),
             TreeWithClasses(<<>>, <<>>) }

InitClasses ==
    /\ data \in ClassTrees
    /\ text = EMPTY
    /\ fn = "none"
    /\ pc = "start"
    /\ cleaned = EMPTY
    /\ recleaned = EMPTY
    /\ result = Ok(None)
    /\ Idle

\* A caller invokes parser.get_classes().
CallGetClasses ==
    /\ pc = "start"
    /\ result' = get_classes(data)
    /\ fn' = "get_classes"
    /\ pc' = "returned"
    /\ UNCHANGED <<data, text, cleaned, recleaned>>
    /\ UNCHANGED others

\* A caller invokes parser.get_class_features(class_info) with the first
\* entry of data.classes.
CallGetClassFeatures ==
    /\ pc = "start"
    /\ data.data.classes # <<>>
    /\ result' = get_class_features(data.data.classes[1])
    /\ fn' = "get_class_features"
    /\ pc' = "returned"
    /\ UNCHANGED <<data, text, cleaned, recleaned>>
    /\ UNCHANGED others

\* A caller invokes parser.get_subclass_features(class_info) with the first
\* entry of data.classes.
CallGetSubclassFeatures ==
    /\ pc = "start"
    /\ data.data.classes # <<>>
    /\ result' = get_subclass_features(data.data.classes[1])
    /\ fn' = "get_subclass_features"
    /\ pc' = "returned"
    /\ UNCHANGED <<data, text, cleaned, recleaned>>
    /\ UNCHANGED others

NextClasses == CallGetClasses \/ CallGetClassFeatures \/ CallGetSubclassFeatures

SpecClasses == InitClasses /\ [][NextClasses]_vars

(***************************************************************************)
(* Claims about classes                                                    *)
(***************************************************************************)

\* get_classes has returned its list.
ClassesReturned == pc = "returned" /\ fn = "get_classes" /\ ~result.raised

\* The names of the entries of a list of features.
Names(features) == {features[i].name : i \in 1..Len(features)}

\* The names the contract excludes from the feature lists.
ExclusionSet ==
    {FIGHTING_STYLE, MARTIAL_ARCHETYPE, ABILITY_SCORE_IMPROVEMENT, HIT_POINTS,
     EQUIPMENT, PROFICIENCIES}

\* The class_bonuses.features list of entry i of the returned classes.
FeaturesOf(i) == result.value[i].base_class.class_bonuses.features

\* The subclass_bonuses list of entry i of the returned classes; empty when
\* the class has no subclass.
SubclassBonusesOf(i) ==
    IF HasSubclass(data.data.classes[i])
        THEN result.value[i].subclass.subclass_bonuses
    ELSE <<>>

\* C11: no entry of a class's class_bonuses.features list and no entry of a
\* subclass_bonuses list has a name of the exclusion set, whatever the
\* names in data.options.class and in classFeatures are.
C11_ExcludedNeverAppear ==
    ClassesReturned =>
        \A i \in 1..Len(result.value) :
            /\ Names(FeaturesOf(i)) \cap ExclusionSet = {}
            /\ Names(SubclassBonusesOf(i)) \cap ExclusionSet = {}

\* C12: no entry of a class's class_bonuses.features list has a name that
\* contains the substring 'Proficiency'.
C12_NoProficiencyInFeatures ==
    ClassesReturned =>
        \A i \in 1..Len(result.value) :
            \A name \in Names(FeaturesOf(i)) :
                ~Contains(name, <<80, 114, 111, 102, 105, 99, 105, 101, 110, 99, 121>>)


\* The names of a sequence of features, in order.
NameSeq(features) == [j \in 1..Len(features) |-> features[j].name]

\* The classFeatures of the subclass definition of data.classes[i].
SubclassDefinitionFeatures(i) == data.data.classes[i].subclassDefinition.classFeatures

\* The example of the specification: the six Echo Knight features, gated
\* at 3, 3, 7, 10, 15 and 18, on a class of level 4.
IsLevelFourExample(i) ==
    /\ HasSubclass(data.data.classes[i])
    /\ data.data.classes[i].level = 4
    /\ SubclassDefinitionFeatures(i) = EchoKnightFeatures

\* get_subclass_features on a class without subclass definition produces
\* no feature.
NoSubclassNoFeatures ==
    (pc = "returned" /\ fn = "get_subclass_features"
        /\ ~HasSubclass(data.data.classes[1])) => result = Ok(<<>>)

\* C13 as stated: every feature of the subclass definition is in
\* subclass_bonuses exactly when the class level has reached the level the
\* feature is gated at in the definition (its requiredLevel); a class
\* without subclass definition has a null subclass.
C13_GatedByRequiredLevel ==
    /\ NoSubclassNoFeatures
    /\ ClassesReturned => \A i \in 1..Len(result.value) :
        IF HasSubclass(data.data.classes[i])
        THEN \A j \in 1..Len(SubclassDefinitionFeatures(i)) :
                 LET feature == SubclassDefinitionFeatures(i)[j]
                 IN  (feature.name \in Names(SubclassBonusesOf(i)))
                         <=> (data.data.classes[i].level >= feature.requiredLevel)
        ELSE result.value[i].subclass = None

\* C13: subclass_bonuses holds, in the order of the subclass definition,
\* exactly the features whose name is in the allow-list of six Echo Knight
\* features and whose gate in that list (3, 3, 7, 10, 15, 18) the class
\* level has reached; a feature outside the list is absent at every level,
\* the level-4 example yields exactly the two level-3 features, and a class
\* without subclass definition has a null subclass.
C13_GatedByAllowList ==
    /\ NoSubclassNoFeatures
    /\ ClassesReturned => \A i \in 1..Len(result.value) :
        IF HasSubclass(data.data.classes[i])
        THEN /\ NameSeq(SubclassBonusesOf(i))
                    = SelectSeq(NameSeq(SubclassDefinitionFeatures(i)),
                          LAMBDA name :
                              /\ name \in DOMAIN echo_knight_features
                              /\ data.data.classes[i].level
                                     >= echo_knight_features[name])
             /\ IsLevelFourExample(i)
                    => NameSeq(SubclassBonusesOf(i))
                           = <<MANIFEST_ECHO, UNLEASH_INCARNATION>>
        ELSE result.value[i].subclass = None

\* get_classes has returned for the level-4 example: two of the six
\* features are in, four are gated out.
C13_Witness ==
    /\ ClassesReturned
    /\ Len(result.value) >= 1
    /\ IsLevelFourExample(1)
    /\ Len(SubclassBonusesOf(1)) = 2

\* The options of data.options.class with the Fighting Style component.
StyleOptions ==
    SelectSeq(data.data.options.class,
              LAMBDA option : option.componentId = FIGHTING_STYLE_COMPONENT)

\* The fighting-style entry of an option.
StyleEntry(option) ==
    [name |-> option.definition.name,
     description |-> <<STYLE_LINE_1, STYLE_LINE_2>>]

\* The names of the classFeatures of data.classes[i] that are kept: the
\* level is reached, the name is not excluded and has no 'Proficiency' at
\* its start; in source order.
KeptFeatureNames(i) ==
    NameSeq(SelectSeq(data.data.classes[i].definition.classFeatures,
                      LAMBDA feature :
                          /\ feature.requiredLevel <= data.data.classes[i].level
                          /\ feature.name \notin ExclusionSet
                          /\ ~startswith(feature.name, PROFICIENCY)))

\* features of class i is these style entries followed by the kept class
\* features.
FeaturesAre(i, styles) ==
    /\ Len(FeaturesOf(i)) >= Len(styles)
    /\ SubSeq(FeaturesOf(i), 1, Len(styles)) = styles
    /\ NameSeq(SubSeq(FeaturesOf(i), Len(styles) + 1, Len(FeaturesOf(i))))
           = KeptFeatureNames(i)

\* C21 as stated: features is one fighting-style entry, for the option
\* with componentId 191 when there is one, followed by the kept class
\* features in source order.
C21_OneStyleThenFeatures ==
    ClassesReturned => \A i \in 1..Len(result.value) :
        FeaturesAre(i, IF StyleOptions = <<>> THEN <<>>
                       ELSE <<StyleEntry(StyleOptions[1])>>)

\* C21: features is one fighting-style entry for each option with
\* componentId 191, in the order of data.options.class, each named after
\* its option and with the fixed two-line description, followed by the
\* classFeatures, in source order, whose requiredLevel is at most the
\* level and whose name is neither excluded nor starts with
\* 'Proficiency'; a feature above the level never appears.
C21_StylesThenFeatures ==
    ClassesReturned => \A i \in 1..Len(result.value) :
        FeaturesAre(i, [k \in 1..Len(StyleOptions) |-> StyleEntry(StyleOptions[k])])

\* get_classes has returned for a class with one style option, a kept
\* feature and a feature above the level.
C21_Witness ==
    /\ ClassesReturned
    /\ Len(result.value) = 1
    /\ Len(StyleOptions) = 1
    /\ data.data.classes[1].level = 4
    /\ NameSeq(data.data.classes[1].definition.classFeatures)
           = <<SECOND_WIND, EXTRA_ATTACK>>
    /\ NameSeq(FeaturesOf(1)) = <<StyleOptions[1].definition.name, SECOND_WIND>>
(***************************************************************************)
(* Inventory and spells: inputs and calls                                  *)
(***************************************************************************)

\* 'Wand of Magic Missiles'
WAND_OF_MAGIC_MISSILES ==
    <<87, 97, 110, 100, 32, 111, 102, 32, 77, 97, 103, 105, 99, 32, 77, 105,
      115, 115, 105, 108, 101, 115>>
\* 'Staff of Healing'
STAFF_OF_HEALING ==
    <<83, 116, 97, 102, 102, 32, 111, 102, 32, 72, 101, 97, 108, 105, 110, 103>>
\* 'Magic Missile'
MAGIC_MISSILE == <<77, 97, 103, 105, 99, 32, 77, 105, 115, 115, 105, 108, 101>>
\* 'Cure Wounds'
CURE_WOUNDS == <<67, 117, 114, 101, 32, 87, 111, 117, 110, 100, 115>>
\* 'Fire Bolt'
FIRE_BOLT == <<70, 105, 114, 101, 32, 66, 111, 108, 116>>
\* 'Light'
LIGHT == <<76, 105, 103, 104, 116>>
\* 'Evocation'
EVOCATION == <<69, 118, 111, 99, 97, 116, 105, 111, 110>>
\* 'Instantaneous'
INSTANTANEOUS == <<73, 110, 115, 116, 97, 110, 116, 97, 110, 101, 111, 117, 115>>
\* 'Round'
ROUND == <<82, 111, 117, 110, 100>>
\* 'Self'
SELF == <<83, 101, 108, 102>>

\* Length of the data.inventory sequences that are enumerated in full.
MaxItems == 4

\* Length of the data.spells.item sequences that are enumerated in full.
MaxSpells == 3

\* One data.inventory entry.
InventoryItem(id, name, quantity) ==
    [definition |-> [id |-> id, name |-> name], quantity |-> quantity]

\* Entries of data.inventory: two backpacks that differ in id and quantity,
\* the mount, and two items that grant spells, one of them with id 0.
ItemPool ==
    { InventoryItem(1, BACKPACK, 1),
      InventoryItem(2, BACKPACK, 2),
      InventoryItem(3, DONKEY, 1),
      InventoryItem(4, STAFF_OF_HEALING, 1),
      InventoryItem(0, WAND_OF_MAGIC_MISSILES, 1) }

\* One data.spells.item entry that no component grants (no componentId).
SpellKnown(name, level) ==
    [definition |->
         [name |-> name, level |-> level, school |-> EVOCATION,
          description |-> TAG_P \o name \o TAG_P_END,
          duration |-> [durationInterval |-> 1, durationUnit |-> ROUND,
                        durationType |-> INSTANTANEOUS],
          range |-> [origin |-> SELF, rangeValue |-> 0],
          concentration |-> FALSE,
          components |-> <<1, 2>>,
          componentsDescription |-> EMPTY],
     activation |-> [activationTime |-> 1]]

\* One data.spells.item entry granted by the component componentId.
SpellFrom(componentId, name, level) ==
    SpellKnown(name, level) @@ [componentId |-> componentId]

\* Entries of data.spells.item: spells of two levels, known or granted by
\* the item with id 0, by the item with id 4 and by a component that is no
\* inventory item.
SpellPool ==
    { SpellKnown(FIRE_BOLT, 0),
      SpellFrom(9, LIGHT, 0),
      SpellFrom(0, MAGIC_MISSILE, 1),
      SpellFrom(4, CURE_WOUNDS, 1),
      SpellKnown(CURE_WOUNDS, 1) }

\* BaseTree with this inventory and these spells.
TreeWithItems(inventory, spells) ==
    [BaseTree EXCEPT !.data.inventory = inventory, !.data.spells.item = spells]

\* The trees of the inventory and spell claims: every short inventory
\* without spells, and every short spell list with no item, with one of
\* the two granting items, and with both.
ItemTrees ==
    { TreeWithItems(inventory, <<>>) :
          inventory \in SeqsUpTo(ItemPool, MaxItems) }
      \cup { TreeWithItems(inventory, spells) :
                 inventory \in
                     { <<>>,
                       <<InventoryItem(0, WAND_OF_MAGIC_MISSILES, 1)>>,
                       <<InventoryItem(4, STAFF_OF_HEALING, 1)>>,
                       <<InventoryItem(1, BACKPACK, 1),
                         InventoryItem(4, STAFF_OF_HEALING, 1),
                         InventoryItem(0, WAND_OF_MAGIC_MISSILES, 1)>> },
                 spells \in SeqsUpTo(SpellPool, MaxSpells) }

InitItems ==
    /\ data \in ItemTrees
    /\ text = EMPTY
    /\ fn = "none"
    /\ pc = "start"
    /\ cleaned = EMPTY
    /\ recleaned = EMPTY
    /\ result = Ok(None)
    /\ Idle

\* A caller invokes parser.get_spells().
CallGetSpells ==
    /\ pc = "start"
    /\ result' = get_spells(data)
    /\ fn' = "get_spells"
    /\ pc' = "returned"
    /\ UNCHANGED <<data, text, cleaned, recleaned>>
    /\ UNCHANGED others

NextItems == CallGetInventory \/ CallGetSpells

SpecItems == InitItems /\ [][NextItems]_vars
(***************************************************************************)
(* Inventory and spells: properties                                        *)
(***************************************************************************)

InventoryReturned == pc = "returned" /\ fn = "get_inventory" /\ ~result.raised

\* The name of the i-th entry of data.inventory.
InputName(i) == data.data.inventory[i].definition.name

\* The entries of data.inventory that the rules keep: not the mount, and a
\* Backpack only if no Backpack comes before it.
KeptItems ==
    { i \in 1..Len(data.data.inventory) :
          /\ InputName(i) # DONKEY
          /\ InputName(i) = BACKPACK
                 => \A j \in 1..(i - 1) : InputName(j) # BACKPACK }

\* The place in the output of the kept entry i.
Rank(i) == Cardinality({ j \in KeptItems : j <= i })

\* The number of entries of a list with this name.
NamedCount(items, name) ==
    Cardinality({ k \in 1..Len(items) : items[k].name = name })

\* C14: the output of get_inventory has no 'Donkey (or Mule)', has one
\* 'Backpack' when the input has one or more, built from the first of
\* them, and has every other input item, as often as the input and in its
\* order.
C14_InventoryFiltered ==
    InventoryReturned =>
        /\ NamedCount(result.value, DONKEY) = 0
        /\ NamedCount(result.value, BACKPACK)
               = IF \E i \in 1..Len(data.data.inventory) : InputName(i) = BACKPACK
                     THEN 1 ELSE 0
        /\ Len(result.value) = Cardinality(KeptItems)
        /\ \A i \in KeptItems :
               /\ result.value[Rank(i)].name = InputName(i)
               /\ result.value[Rank(i)].quantity = data.data.inventory[i].quantity

\* get_inventory has returned for an inventory with two backpacks, the
\* second one in the input being dropped, the mount and another item.
C14_Witness ==
    /\ InventoryReturned
    /\ Len(data.data.inventory) = 4
    /\ \E i, j, k, l \in 1..4 :
           /\ i < j
           /\ InputName(i) = BACKPACK /\ data.data.inventory[i].quantity = 2
           /\ InputName(j) = BACKPACK /\ data.data.inventory[j].quantity = 1
           /\ InputName(k) = DONKEY
           /\ InputName(l) = STAFF_OF_HEALING
    /\ Len(result.value) = 2
    /\ \E k \in 1..2 : result.value[k].name = BACKPACK /\ result.value[k].quantity = 2

SpellsReturned == pc = "returned" /\ fn = "get_spells" /\ ~result.raised

\* The sort key (level, name) of a is not above that of b.
KeyNotAbove(a, b) ==
    \/ a.level < b.level
    \/ a.level = b.level /\ (a.name = b.name \/ StrLess(a.name, b.name))

\* The inventory entries whose definition id is this componentId.
ItemsWithId(componentId) ==
    { i \in 1..Len(data.data.inventory) :
          data.data.inventory[i].definition.id = componentId }

\* The record is the one of this spell: same name and level, and source_item
\* the name of an inventory entry with the spell's componentId exactly when
\* there is such an entry.
RecordOf(record, spell) ==
    /\ record.name = spell.definition.name
    /\ record.level = spell.definition.level
    /\ IF "componentId" \in DOMAIN spell /\ ItemsWithId(spell.componentId) # {}
           THEN /\ "source_item" \in DOMAIN record
                /\ \E i \in ItemsWithId(spell.componentId) :
                       record.source_item = InputName(i)
       ELSE "source_item" \notin DOMAIN record

\* C15: get_spells returns one record per entry of data.spells.item, in
\* the order of (level, name), and a record has source_item, the name of
\* the inventory entry whose definition id is the spell's componentId,
\* exactly when there is such an entry, whatever the id, 0 included.
C15_SpellsSortedWithSource ==
    SpellsReturned =>
        /\ Len(result.value) = Len(data.data.spells.item)
        /\ \A k \in 1..(Len(result.value) - 1) :
               KeyNotAbove(result.value[k], result.value[k + 1])
        /\ \E p \in [1..Len(result.value) -> 1..Len(result.value)] :
               /\ \A k, l \in 1..Len(result.value) : k # l => p[k] # p[l]
               /\ \A k \in 1..Len(result.value) :
                      RecordOf(result.value[k], data.data.spells.item[p[k]])

(***************************************************************************)
(* Feats: inputs and calls                                                 *)
(***************************************************************************)

\* 'Tavern Brawler'
TAVERN_BRAWLER == <<84, 97, 118, 101, 114, 110, 32, 66, 114, 97, 119, 108, 101, 114>>
\* 'Alert'
ALERT == <<65, 108, 101, 114, 116>>
\* 'strength-score'
STRENGTH_SCORE ==
    <<115, 116, 114, 101, 110, 103, 116, 104, 45, 115, 99, 111, 114, 101>>
\* 'initiative'
INITIATIVE == <<105, 110, 105, 116, 105, 97, 116, 105, 118, 101>>
\* 'Improvised Weapons'
IMPROVISED_WEAPONS ==
    <<73, 109, 112, 114, 111, 118, 105, 115, 101, 100, 32, 87, 101, 97, 112,
      111, 110, 115>>
\* 'Perception'
PERCEPTION == <<80, 101, 114, 99, 101, 112, 116, 105, 111, 110>>
\* '1d4'
DICE_1D4 == <<49, 100, 52>>
\* ' Grapple as a bonus action. '
GRAPPLE_SNIPPET ==
    <<32, 71, 114, 97, 112, 112, 108, 101, 32, 97, 115, 32, 97, 32, 98, 111,
      110, 117, 115, 32, 97, 99, 116, 105, 111, 110, 46, 32>>
\* 'Always on guard'
ALERT_SNIPPET ==
    <<65, 108, 119, 97, 121, 115, 32, 111, 110, 32, 103, 117, 97, 114, 100>>

\* Length of the data.modifiers.feat sequences that are enumerated in full.
MaxFeatMods == 2

\* One data.feats entry.
Feat(id, name) ==
    [definition |->
         [id |-> id, name |-> name, description |-> TAG_P \o name \o TAG_P_END]]

\* Entries of data.feats: two feats, with the definition ids 10 and 20.
FeatPool ==
    { Feat(10, TAVERN_BRAWLER), Feat(20, ALERT) }

\* Entries of data.modifiers.feat: one for each category and one that no
\* category takes, for the two feats and for the component 30, no feat.
FeatModifierPool ==
    { [componentId |-> 10, type |-> "bonus",
       subType |-> STRENGTH_SCORE, value |-> 1],
      [componentId |-> 10, type |-> "proficiency",
       friendlySubtypeName |-> IMPROVISED_WEAPONS],
      [componentId |-> 10, type |-> "set",
       subType |-> UNARMED_DAMAGE_DIE, dice |-> [diceString |-> DICE_1D4]],
      [componentId |-> 20, type |-> "bonus", subType |-> INITIATIVE,
       value |-> 5],
      [componentId |-> 20, type |-> "proficiency",
       friendlySubtypeName |-> PERCEPTION],
      [componentId |-> 30, type |-> "bonus",
       subType |-> STRENGTH_SCORE, value |-> 2] }

\* Entries of data.actions.feat: snippets to strip, an empty and a null
\* snippet.
FeatActionPool ==
    { [componentId |-> 10, snippet |-> GRAPPLE_SNIPPET],
      [componentId |-> 20, snippet |-> ALERT_SNIPPET],
      [componentId |-> 20, snippet |-> EMPTY],
      [componentId |-> 20, snippet |-> None],
      [componentId |-> 30, snippet |-> GRAPPLE_SNIPPET] }

\* BaseTree with these feats, feat modifiers and feat actions.
TreeWithFeats(feats, modifiers, actions) ==
    [BaseTree EXCEPT !.data =
        [feats |-> feats,
         modifiers |-> [feat |-> modifiers] @@ BaseTree.data.modifiers,
         actions |-> [feat |-> actions]] @@ BaseTree.data]

\* The trees of the feat claims.
FeatTrees ==
    { TreeWithFeats(feats, modifiers, actions) :
          feats \in SeqsUpTo(FeatPool, 2),
          modifiers \in SeqsUpTo(FeatModifierPool, MaxFeatMods),
          actions \in SeqsUpTo(FeatActionPool, 1) }

InitFeats ==
    /\ data \in FeatTrees
    /\ text = EMPTY
    /\ fn = "none"
    /\ pc = "start"
    /\ cleaned = EMPTY
    /\ recleaned = EMPTY
    /\ result = Ok(None)
    /\ Idle

\* A caller invokes parser.get_feats().
CallGetFeats ==
    /\ pc = "start"
    /\ result' = get_feats(data)
    /\ fn' = "get_feats"
    /\ pc' = "returned"
    /\ UNCHANGED <<data, text, cleaned, recleaned>>
    /\ UNCHANGED others

NextFeats == CallGetFeats

SpecFeats == InitFeats /\ [][NextFeats]_vars
(***************************************************************************)
(* Feats: properties                                                       *)
(***************************************************************************)

FeatsReturned == pc = "returned" /\ fn = "get_feats" /\ ~result.raised

\* The feat modifiers and feat actions of the component id, in input order.
ModifiersOf(id) ==
    SelectSeq(data.data.modifiers.feat, LAMBDA m : m.componentId = id)
ActionsOf(id) ==
    SelectSeq(data.data.actions.feat, LAMBDA a : a.componentId = id)

IsAbilityBonus(m) == m.type = "bonus" /\ Contains(m.subType, SCORE)
IsProficiency(m) == m.type = "proficiency"
IsUnarmedDie(m) == m.type = "set" /\ m.subType = UNARMED_DAMAGE_DIE

\* The four buckets of the component id: the ability of each score bonus
\* with the value of the last such modifier, the proficiency names, the
\* stripped non-empty snippets, and the unarmed damage dice.
AbilityBucket(id) ==
    LET ms == SelectSeq(ModifiersOf(id), IsAbilityBonus)
        ability(m) == replace(m.subType, SCORE_SUFFIX, EMPTY)
        last(a) == CHOOSE k \in 1..Len(ms) :
                       /\ ability(ms[k]) = a
                       /\ \A l \in (k + 1)..Len(ms) : ability(ms[l]) # a
    IN  [a \in { ability(ms[k]) : k \in 1..Len(ms) } |-> ms[last(a)].value]
ProficiencyBucket(id) ==
    LET ms == SelectSeq(ModifiersOf(id), IsProficiency)
    IN  [k \in 1..Len(ms) |-> ms[k].friendlySubtypeName]
FeatureBucket(id) ==
    LET as == SelectSeq(ActionsOf(id), LAMBDA a : ~Falsy(a.snippet))
    IN  [k \in 1..Len(as) |-> strip(as[k].snippet)]
OtherBucket(id) ==
    LET ms == SelectSeq(ModifiersOf(id), IsUnarmedDie)
    IN  [k \in 1..Len(ms) |-> "unarmed-damage-die" :> ms[k].dice.diceString]

\* The non-empty buckets of the component id in the fixed order.
NonEmptyBuckets(id) ==
    (IF DOMAIN AbilityBucket(id) # {}
         THEN <<[ability_bonuses |-> AbilityBucket(id)]>> ELSE <<>>)
    \o (IF Len(ProficiencyBucket(id)) > 0
            THEN <<[proficiencies |-> ProficiencyBucket(id)]>> ELSE <<>>)
    \o (IF Len(FeatureBucket(id)) > 0
            THEN <<[features |-> FeatureBucket(id)]>> ELSE <<>>)
    \o (IF Len(OtherBucket(id)) > 0
            THEN <<[other |-> OtherBucket(id)]>> ELSE <<>>)

\* C16: each feat record has either feat_bonuses, the non-empty buckets, in
\* the order ability_bonuses, proficiencies, features, other, built from
\* the feat modifiers and feat actions whose componentId is the feat's
\* definition id, or, when there is no non-empty bucket, modifiers = [];
\* never both keys and never an empty bucket.
C16_FeatShapes ==
    FeatsReturned =>
        /\ Len(result.value) = Len(data.data.feats)
        /\ \A k \in 1..Len(result.value) :
               LET record == result.value[k]
                   id == data.data.feats[k].definition.id
               IN  IF Len(NonEmptyBuckets(id)) > 0
                       THEN /\ DOMAIN record = {"name", "description", "feat_bonuses"}
                            /\ record.feat_bonuses = NonEmptyBuckets(id)
                   ELSE /\ DOMAIN record = {"name", "description", "modifiers"}
                        /\ record.modifiers = <<>>

\* get_feats has returned for two feats: the first has buckets filled from
\* its own modifier and action, the second only a modifier that no bucket
\* takes and gets modifiers = [], while a modifier of another component is
\* in the input.
C16_Witness ==
    /\ FeatsReturned
    /\ Len(result.value) = 2
    /\ "feat_bonuses" \in DOMAIN result.value[1]
    /\ Len(result.value[1].feat_bonuses) = 2
    /\ "modifiers" \in DOMAIN result.value[2]
    /\ Len(ModifiersOf(data.data.feats[2].definition.id)) = 1
    /\ Len(data.data.modifiers.feat) = 2
(***************************************************************************)
(* Repeated accessor calls: inputs and calls                               *)
(***************************************************************************)

\* 'Criminal'
CRIMINAL == <<67, 114, 105, 109, 105, 110, 97, 108>>
\* '<p>You are an experienced criminal</p>'
CRIMINAL_TEXT ==
    <<60, 112, 62, 89, 111, 117, 32, 97, 114, 101, 32, 97, 110, 32, 101, 120,
      112, 101, 114, 105, 101, 110, 99, 101, 100, 32, 99, 114, 105, 109, 105,
      110, 97, 108, 60, 47, 112, 62>>
\* 'Criminal Contact'
CRIMINAL_CONTACT ==
    <<67, 114, 105, 109, 105, 110, 97, 108, 32, 67, 111, 110, 116, 97, 99, 116>>
\* 'You have a reliable contact'
CRIMINAL_CONTACT_TEXT ==
    <<89, 111, 117, 32, 104, 97, 118, 101, 32, 97, 32, 114, 101, 108, 105, 97,
      98, 108, 101, 32, 99, 111, 110, 116, 97, 99, 116>>
\* 'thieves-tools'
THIEVES_TOOLS_SUBTYPE ==
    <<116, 104, 105, 101, 118, 101, 115, 45, 116, 111, 111, 108, 115>>
\* 'stealth'
STEALTH_SUBTYPE == <<115, 116, 101, 97, 108, 116, 104>>
\* 'Stealth'
STEALTH == <<83, 116, 101, 97, 108, 116, 104>>

\* The number of different accessors one caller calls.
MaxCalled == 2

\* One data.modifiers.background entry of type proficiency.
BackgroundProficiency(subType, friendlySubtypeName) ==
    [type |-> "proficiency", subType |-> subType,
     friendlySubtypeName |-> friendlySubtypeName]

\* The tree d with the background Criminal and these background modifiers.
WithBackground(d, modifiers) ==
    [d EXCEPT !.data =
        [background |->
             [definition |->
                  [name |-> CRIMINAL,
                   shortDescription |-> CRIMINAL_TEXT,
                   featureName |-> CRIMINAL_CONTACT,
                   featureDescription |-> CRIMINAL_CONTACT_TEXT]],
         modifiers |-> [background |-> modifiers] @@ d.data.modifiers]
            @@ d.data]

\* A tree with every section filled: a feat with a modifier and an action,
\* a background with two proficiencies, two items and two spells.
FullTree ==
    WithBackground(
        [TreeWithFeats(
             <<Feat(10, TAVERN_BRAWLER)>>,
             <<[componentId |-> 10, type |-> "proficiency",
                friendlySubtypeName |-> IMPROVISED_WEAPONS]>>,
             <<[componentId |-> 10, snippet |-> GRAPPLE_SNIPPET]>>)
         EXCEPT !.data.inventory =
                    <<InventoryItem(1, BACKPACK, 1),
                      InventoryItem(4, STAFF_OF_HEALING, 1)>>,
                !.data.spells.item =
                    <<SpellFrom(4, CURE_WOUNDS, 1), SpellKnown(FIRE_BOLT, 0)>>],
        <<BackgroundProficiency(THIEVES_TOOLS_SUBTYPE, THIEVES_TOOLS),
          BackgroundProficiency(STEALTH_SUBTYPE, STEALTH)>>)

\* The trees one parser is loaded with: the character of the tests, a tree
\* with every section filled, one whose stats carry an id that is not in
\* the table (get_stats and parse raise), and one without classes.
LoadedTrees ==
    { BaseTree,
      FullTree,
      [FullTree EXCEPT !.data.stats = <<Stat(1, 18), Stat(7, 10)>>],
      TreeWithClasses(<<>>, <<>>) }

\* The accessors of a parser.
Accessors ==
    {"get_name", "get_username", "get_stats", "get_race", "get_classes",
     "get_feats", "get_background", "get_spells", "get_inventory",
     "get_characteristics", "parse"}

\* getattr(parser, accessor)()
Call(accessor, d) ==
    CASE accessor = "get_name" -> get_name(d)
      [] accessor = "get_username" -> get_username(d)
      [] accessor = "get_stats" -> get_stats(d)
      [] accessor = "get_race" -> get_race(d)
      [] accessor = "get_classes" -> get_classes(d)
      [] accessor = "get_feats" -> get_feats(d)
      [] accessor = "get_background" -> get_background(d)
      [] accessor = "get_spells" -> get_spells(d)
      [] accessor = "get_inventory" -> get_inventory(d)
      [] accessor = "get_characteristics" -> get_characteristics(d)
      [] accessor = "parse" -> parse(d)

\* self.data after an accessor that sorts the spell list of the tree in
\* place instead of the list it returns.
TreeAfterSortingInPlace(accessor, d) ==
    IF accessor \in {"get_spells", "parse"} /\ d.data.spells.item # <<>>
        THEN [d EXCEPT !.data.spells.item = Tail(@) \o <<Head(@)>>]
    ELSE d

\* self.data after the accessor has run on the tree d: no statement of an
\* accessor assigns to self.data or stores into an object of the tree (the
\* lists and dicts they append to and store into are created in the call).
TreeAfter(accessor, d) == d

\* The history of one accessor after one more call of it that gave r.
Called(history, accessor, r) ==
    IF Has(history, accessor)
        THEN SetItem(history, accessor, [history[accessor] EXCEPT !.again = TRUE])
    ELSE SetItem(history, accessor, [result |-> r, again |-> FALSE])

InitPure ==
    /\ data \in LoadedTrees
    /\ text = EMPTY
    /\ fn = "none"
    /\ pc = "start"
    /\ cleaned = EMPTY
    /\ recleaned = EMPTY
    /\ result = Ok(None)
    /\ Idle

\* A caller invokes one of the accessors, for the first time or again.
CallAccessor ==
    \E accessor \in Accessors :
        /\ pc \in {"start", "returned"}
        /\ Has(first, accessor) \/ Cardinality(DOMAIN first) < MaxCalled
        /\ result' = Call(accessor, data)
        /\ data' = TreeAfter(accessor, data)
        /\ fn' = accessor
        /\ pc' = "returned"
        /\ first' = Called(first, accessor, result')
        /\ UNCHANGED <<text, cleaned, recleaned, loaded, locals, file, printed, exit, input>>

NextPure == CallAccessor

SpecPure == InitPure /\ [][NextPure]_vars
(***************************************************************************)
(* Repeated accessor calls: properties                                     *)
(***************************************************************************)

OLD_NAME == <<79, 108, 100, 32, 78, 97, 109, 101>>

\* utils.validate_json_file(filepath) for the path of the input file.
validate_json_file(f) == f.exists /\ f.suffix = ".json"

\* CharacterParser._load_json(): open() and json.load() of the input file.
_load_json(f) ==
    IF ~f.exists THEN Raise("FileNotFoundError")
    ELSE IF ~f.json THEN Raise("JSONDecodeError")
    ELSE Ok(f.tree)

\* The accessors main() calls, in the order of the calls.
MainAccessors == <<"get_name", "get_username", "get_stats", "get_race">>

\* The call main() makes of the accessor on the parser's tree.
MainCall(accessor, d) ==
    CASE accessor = "get_name" -> get_name(d)
      [] accessor = "get_username" -> get_username(d)
      [] accessor = "get_stats" -> get_stats(d)
      [] accessor = "get_race" -> get_race(d)

\* The local variable main() assigns the result of the accessor to.
LocalOf(accessor) ==
    CASE accessor = "get_name" -> "name"
      [] accessor = "get_username" -> "username"
      [] accessor = "get_stats" -> "stats"
      [] accessor = "get_race" -> "race"

\* The statements of the try block of main() in source order: the step
\* that follows a step that has completed.
MainFlow(step) ==
    CASE step = "load" -> "get_name"
      [] step = "get_name" -> "get_username"
      [] step = "get_username" -> "get_stats"
      [] step = "get_stats" -> "get_race"
      [] step = "get_race" -> "assemble"
      [] step = "assemble" -> "save_output"
      [] step = "save_output" -> "print"
      [] step = "print" -> "return"

\* A try block that goes on with the next statement after an exception.
AfterRaiseIgnored(step) == MainFlow(step)

\* The step that follows a step of the try block that has raised: the
\* handler `except Exception`.
AfterRaise(step) == "except"

\* The document json.dump(output_data, file, indent=2) writes: the keys of
\* output_data are strings and its values come from the JSON input, so the
\* text denotes a mapping with the same keys and values.
json_document(output_data) == [k \in DOMAIN output_data |-> output_data[k]]

\* The dict d without the key k.
Without(d, k) == [j \in DOMAIN d \ {k} |-> d[j]]

\* The trees of the input file: trees on which the four accessors return,
\* for each accessor a tree on which it is the first to raise, and a JSON
\* object without the key 'data'.
MainTrees ==
    { BaseTree,
      FullTree,
      TreeWithClasses(<<>>, <<>>),
      [BaseTree EXCEPT !.data = Without(@, "name")],
      [BaseTree EXCEPT !.data = Without(@, "username")],
      [BaseTree EXCEPT !.data = Without(@, "stats")],
      [BaseTree EXCEPT !.data.stats = <<Stat(1, 18), Stat(7, 10)>>],
      [BaseTree EXCEPT !.data = Without(@, "race")],
      [BaseTree EXCEPT !.data.modifiers = Without(@, "race")],
      [success |-> FALSE] }

\* The input file: missing, not JSON, or the JSON text of a tree.
InputFiles ==
    { [exists |-> FALSE, suffix |-> ".json", json |-> FALSE, tree |-> EmptyDict],
      [exists |-> TRUE, suffix |-> ".json", json |-> FALSE, tree |-> EmptyDict] }
      \cup { InputFile(tree) : tree \in MainTrees }

\* The output file an earlier run has left.
StaleFile ==
    [exists |-> TRUE,
     content |-> [player_username |-> EMPTY, character_name |-> OLD_NAME,
                  stats |-> EmptyDict, race |-> EmptyDict],
     writes |-> 0]

InitMain ==
    /\ input \in InputFiles
    /\ file \in {NoFile, StaleFile}
    /\ data = None
    /\ loaded = None
    /\ text = EMPTY
    /\ fn = "none"
    /\ pc = "main"
    /\ cleaned = EMPTY
    /\ recleaned = EMPTY
    /\ result = Ok(None)
    /\ first = EmptyDict
    /\ locals = EmptyDict
    /\ printed = <<>>
    /\ exit = "running"

\* main(): `if not validate_json_file(input_file)`, with its print and
\* sys.exit(1).
Validate ==
    /\ pc = "main"
    /\ IF validate_json_file(input)
           THEN /\ pc' = "load"
                /\ UNCHANGED <<printed, exit>>
       ELSE /\ printed' = Append(printed, "Error: Invalid input file")
            /\ exit' = "1"
            /\ pc' = "exited"
    /\ UNCHANGED <<data, text, fn, cleaned, recleaned, result, loaded, first,
                   locals, file, input>>

\* main(): `parser = CharacterParser(input_file)`.
Load ==
    /\ pc = "load"
    /\ LET r == _load_json(input)
       IN  /\ first' = Called(first, "CharacterParser", r)
           /\ fn' = "CharacterParser"
           /\ IF r.raised
                  THEN /\ result' = r
                       /\ pc' = AfterRaise("load")
                       /\ UNCHANGED <<data, loaded>>
              ELSE /\ data' = r.value
                   /\ loaded' = r.value
                   /\ pc' = MainFlow("load")
                   /\ UNCHANGED result
    /\ UNCHANGED <<text, cleaned, recleaned, locals, file, printed, exit, input>>

\* main(): one of `name = parser.get_name()` ... `race = parser.get_race()`.
CallSection ==
    \E k \in 1..Len(MainAccessors) :
        /\ pc = MainAccessors[k]
        /\ \E r \in {MainCall(pc, data)} :
               /\ first' = Called(first, pc, r)
               /\ result' = r
               /\ IF r.raised
                      THEN /\ pc' = AfterRaise(pc)
                           /\ UNCHANGED locals
                  ELSE /\ locals' = SetItem(locals, LocalOf(pc), r.value)
                       /\ pc' = MainFlow(pc)
        /\ fn' = pc
        /\ data' = TreeAfter(pc, data)
        /\ UNCHANGED <<text, cleaned, recleaned, loaded, file, printed, exit,
                       input>>

\* main(): `output_data = {...}`.
Assemble ==
    /\ pc = "assemble"
    /\ locals' = SetItem(locals, "output_data",
                         [player_username |-> locals.username,
                          character_name |-> locals.name,
                          stats |-> locals.stats,
                          race |-> locals.race])
    /\ pc' = MainFlow("assemble")
    /\ UNCHANGED <<data, text, fn, cleaned, recleaned, result, loaded, first,
                   file, printed, exit, input>>

\* main(): `parser.save_output(output_data, 'character_info.json')`.  The
\* directory and the file can be created and opened, and the document is
\* written, or mkdir() or open() raises and the file is as it was.
SaveOutput ==
    /\ pc = "save_output"
    /\ \E opened \in BOOLEAN :
           IF opened
               THEN /\ file' = [exists |-> TRUE,
                                content |-> json_document(locals.output_data),
                                writes |-> file.writes + 1]
                    /\ first' = Called(first, "save_output", Ok(None))
                    /\ pc' = MainFlow("save_output")
                    /\ UNCHANGED result
           ELSE /\ first' = Called(first, "save_output", Raise("OSError"))
                /\ result' = Raise("OSError")
                /\ pc' = AfterRaise("save_output")
                /\ UNCHANGED file
    /\ fn' = "save_output"
    /\ UNCHANGED <<data, text, cleaned, recleaned, loaded, locals, printed,
                   exit, input>>

\* main(): the prints after save_output; `race['species']` raises KeyError
\* when the race record has no such key.
PrintSummary ==
    /\ pc = "print"
    /\ IF Has(locals.race, "species")
           THEN /\ printed' = printed \o <<"Successfully parsed character info:",
                                            "Player Username", "Character Name",
                                            "Ability Scores", "Race", "Languages">>
                /\ pc' = "exited"
                /\ exit' = "normal"
                /\ UNCHANGED result
       ELSE /\ printed' = printed \o <<"Successfully parsed character info:",
                                        "Player Username", "Character Name",
                                        "Ability Scores">>
            /\ result' = Raise("KeyError")
            /\ pc' = AfterRaise("print")
            /\ UNCHANGED exit
    /\ UNCHANGED <<data, text, fn, cleaned, recleaned, loaded, first, locals,
                   file, input>>

\* main(): `except Exception as e`, with its print and sys.exit(1).
Handler ==
    /\ pc = "except"
    /\ printed' = Append(printed, "Error: " \o result.exc)
    /\ exit' = "1"
    /\ pc' = "exited"
    /\ UNCHANGED <<data, text, fn, cleaned, recleaned, result, loaded, first,
                   locals, file, input>>

NextMain ==
    Validate \/ Load \/ CallSection \/ Assemble \/ SaveOutput \/ PrintSummary
        \/ Handler

SpecMain == InitMain /\ [][NextMain]_vars

(***************************************************************************)
(* Callers of parse() and main()                                           *)
(***************************************************************************)

\* The trees a caller of parse() has loaded: without background, with a
\* background without definition, with a background definition, and one
\* on which an accessor raises.
ParsedTrees ==
    { BaseTree,
      TreeWithClasses(<<>>, <<>>),
      [BaseTree EXCEPT !.data = [background |-> [hasCustomBackground |-> FALSE]] @@ @],
      FullTree,
      WithBackground(BaseTree, <<>>),
      [FullTree EXCEPT !.data.stats = <<Stat(1, 18), Stat(7, 10)>>] }

\* A caller of the library with a parser it has constructed, or main()
\* at its first statement.
InitCallers ==
    \/ InitMain
    \/ /\ data \in ParsedTrees
       /\ text = EMPTY
       /\ fn = "none"
       /\ pc = "start"
       /\ cleaned = EMPTY
       /\ recleaned = EMPTY
       /\ result = Ok(None)
       /\ Idle

NextCallers == NextMain \/ CallParse

SpecCallers == InitCallers /\ [][NextCallers]_vars
(***************************************************************************)
(* main(): properties                                                      *)
(***************************************************************************)

\* The run has called save_output.
SaveInvoked == Has(first, "save_output")

\* The constructor and the four accessors of main().
Extractions ==
    {"CharacterParser"} \cup { MainAccessors[k] : k \in 1..Len(MainAccessors) }

\* The run has made this call and the call has returned.
Extracted(call) == Has(first, call) /\ ~first[call].result.raised

\* Loading or one of the accessors has raised.
ExtractionFailed ==
    \E call \in Extractions : Has(first, call) /\ first[call].result.raised

\* C18: save_output is invoked only after the tree is loaded and the four
\* accessors have returned; when loading or an accessor has raised, the
\* run is in its handler or over, save_output is not invoked and the
\* output file is neither created nor written; a file the run has written
\* holds the whole record.
C18_NoPartialOutput ==
    /\ (SaveInvoked \/ pc = "save_output")
           => \A call \in Extractions : Extracted(call)
    /\ ExtractionFailed
           => /\ ~SaveInvoked
              /\ pc \in {"except", "exited"}
    /\ ~SaveInvoked => file.writes = 0
    /\ file.writes > 0
           => file.content
                  = [player_username |-> first["get_username"].result.value,
                     character_name |-> first["get_name"].result.value,
                     stats |-> first["get_stats"].result.value,
                     race |-> first["get_race"].result.value]

\* A run has written the output file once, over the file of an earlier
\* run, after its four accessors returned.
C18_Witness ==
    /\ pc = "exited"
    /\ file.exists
    /\ file.writes = 1
    /\ file.content.character_name = NAME_MIRIAM
    /\ \A call \in Extractions : Extracted(call)

\* A run whose third accessor has raised is over: save_output was not
\* invoked and the file of the earlier run is as it was.
FailedRunLeavesFile ==
    /\ pc = "exited"
    /\ Extracted("get_username")
    /\ Has(first, "get_stats") /\ first["get_stats"].result.raised
    /\ file = StaleFile
    /\ exit = "1"

\* parse() has returned a record.
ParseReturned == pc = "returned" /\ fn = "parse" /\ ~result.raised

\* The tree has a background with a definition.
HasBackgroundDefinition ==
    Has(data.data, "background") /\ Has(data.data.background, "definition")

\* C19: the record parse() returns has the ten keys player_username,
\* character_name, characteristics, stats, race, classes, feats,
\* background, spells, inventory and no other, background being null when
\* the tree has no background definition; the document save_output writes
\* for main() has the four keys main() put in its record and no other.
C19_ExactKeys ==
    /\ ParseReturned
           => /\ DOMAIN result.value
                     = {"player_username", "character_name", "characteristics",
                        "stats", "race", "classes", "feats", "background",
                        "spells", "inventory"}
              /\ ~HasBackgroundDefinition => result.value.background = None
    /\ file.writes > 0
           => /\ DOMAIN locals.output_data
                     = {"player_username", "character_name", "stats", "race"}
              /\ DOMAIN file.content = DOMAIN locals.output_data

\* parse() has returned for a tree whose background has no definition.
C19_Witness ==
    /\ ParseReturned
    /\ Has(data.data, "background")
    /\ ~HasBackgroundDefinition
    /\ Cardinality(DOMAIN result.value) = 10

\* main() has written its record of four keys.
MainRecordWritten ==
    /\ file.writes = 1
    /\ Cardinality(DOMAIN file.content) = 4

\* save_output has raised.
SaveFailed == Has(first, "save_output") /\ first["save_output"].result.raised

\* Validation, loading, the four accessors and save_output have succeeded.
CoreSucceeded ==
    /\ validate_json_file(input)
    /\ \A call \in Extractions : Extracted(call)
    /\ Extracted("save_output")

\* C22: a run of main() that is over has exit status 1 and a printed
\* message exactly when validation failed (and then no parser was
\* constructed) or loading, an accessor or save_output raised; a run whose
\* validation, loading, four accessors and save_output succeeded is over
\* without sys.exit(1).
C22_ExitStatus ==
    pc = "exited"
        => /\ (exit = "1") <=> (\/ ~validate_json_file(input)
                                \/ ExtractionFailed
                                \/ SaveFailed)
           /\ exit = "1" => printed # <<>>
           /\ ~validate_json_file(input) => ~Has(first, "CharacterParser")
           /\ CoreSucceeded => exit = "normal"

\* The parts of C22 about failures: a run whose validation failed is over
\* with status 1, the message 'Error: Invalid input file' and no parser;
\* a run whose loading, accessor or save_output raised is over with status
\* 1 and a message that starts with 'Error: '.
FailuresExitNonZero ==
    pc = "exited"
        => /\ ~validate_json_file(input)
                  => /\ exit = "1"
                     /\ printed = <<"Error: Invalid input file">>
                     /\ first = EmptyDict
           /\ (ExtractionFailed \/ SaveFailed)
                  => /\ exit = "1"
                     /\ printed = <<"Error: " \o result.exc>>

\* A run whose core succeeded is over with exit status 1.
SucceededRunExitsNonZero ==
    /\ pc = "exited"
    /\ CoreSucceeded
    /\ exit = "1"
    /\ file.writes = 1
(***************************************************************************)
(* Background proficiencies: inputs and calls                              *)
(***************************************************************************)

\* 'tinkers-tools'
TINKERS_TOOLS_SUBTYPE ==
    <<116, 105, 110, 107, 101, 114, 115, 45, 116, 111, 111, 108, 115>>
\* 'sleight-of-hand'
SLEIGHT_OF_HAND_SUBTYPE ==
    <<115, 108, 101, 105, 103, 104, 116, 45, 111, 102, 45, 104, 97, 110, 100>>
\* 'Sleight of Hand'
SLEIGHT_OF_HAND ==
    <<83, 108, 101, 105, 103, 104, 116, 32, 111, 102, 32, 72, 97, 110, 100>>
\* "Tinkers' Tools"
TINKERS_TOOLS ==
    <<84, 105, 110, 107, 101, 114, 115, 39, 32, 84, 111, 111, 108, 115>>
\* 'common'
COMMON_SUBTYPE == <<99, 111, 109, 109, 111, 110>>

\* Length of the data.modifiers.background sequences that are enumerated in
\* full.
MaxBackgroundMods == 2

\* Entries of data.modifiers.background: tool proficiencies of two owners,
\* skill proficiencies of one word and of three, and a language.
BackgroundModifierPool ==
    { BackgroundProficiency(THIEVES_TOOLS_SUBTYPE, THIEVES_TOOLS),
      BackgroundProficiency(TINKERS_TOOLS_SUBTYPE, TINKERS_TOOLS),
      BackgroundProficiency(STEALTH_SUBTYPE, STEALTH),
      BackgroundProficiency(SLEIGHT_OF_HAND_SUBTYPE, SLEIGHT_OF_HAND),
      [type |-> "language", subType |-> COMMON_SUBTYPE,
       friendlySubtypeName |-> COMMON] }

\* The trees of the background claims.
BackgroundTrees ==
    { WithBackground(BaseTree, modifiers) :
          modifiers \in SeqsUpTo(BackgroundModifierPool, MaxBackgroundMods) }

InitBackground ==
    /\ data \in BackgroundTrees
    /\ text = EMPTY
    /\ fn = "none"
    /\ pc = "start"
    /\ cleaned = EMPTY
    /\ recleaned = EMPTY
    /\ result = Ok(None)
    /\ Idle

\* A caller invokes parser.get_background_proficiencies().
CallGetBackgroundProficiencies ==
    /\ pc = "start"
    /\ result' = get_background_proficiencies(data)
    /\ fn' = "get_background_proficiencies"
    /\ pc' = "returned"
    /\ UNCHANGED <<data, text, cleaned, recleaned>>
    /\ UNCHANGED others

\* A caller invokes parser.get_background().
CallGetBackground ==
    /\ pc = "start"
    /\ result' = get_background(data)
    /\ fn' = "get_background"
    /\ pc' = "returned"
    /\ UNCHANGED <<data, text, cleaned, recleaned>>
    /\ UNCHANGED others

NextBackground == CallGetBackgroundProficiencies \/ CallGetBackground \/ CallParse

SpecBackground == InitBackground /\ [][NextBackground]_vars
(***************************************************************************)
(* Background proficiencies: properties                                    *)
(***************************************************************************)

\* '-tools'
TOOLS_SUFFIX == <<45, 116, 111, 111, 108, 115>>

BackgroundProficienciesReturned ==
    pc = "returned" /\ fn = "get_background_proficiencies" /\ ~result.raised

\* s.endswith(suffix)
EndsWith(s, suffix) ==
    /\ Len(s) >= Len(suffix)
    /\ SubSeq(s, Len(s) - Len(suffix) + 1, Len(s)) = suffix

\* The name of a proficiency subType: for '<owner>-tools' the Title Case
\* owner, an apostrophe, one space and 'Tools'; for any other subType its
\* Title Case form with '-' replaced by a space.
ReinsertedName(subType) ==
    IF EndsWith(subType, TOOLS_SUFFIX)
        THEN title(replace(SubSeq(subType, 1, Len(subType) - Len(TOOLS_SUFFIX)),
                           HYPHEN, SP))
                 \o <<39, 32>> \o TOOLS
    ELSE title(replace(subType, HYPHEN, SP))

\* The proficiency modifiers of the background, in input order.
ProficiencyModifiers ==
    SelectSeq(data.data.modifiers.background, LAMBDA m : m.type = "proficiency")

\* C20: get_background_proficiencies names every proficiency modifier of
\* the form '<owner>-tools' by the Title Case owner with the apostrophe
\* directly after it and one space before 'Tools' ("Thieves' Tools",
\* "Tinkers' Tools"), and every other one by its plain Title Case form.
C20_ApostropheReinserted ==
    BackgroundProficienciesReturned =>
        /\ Len(result.value) = Len(ProficiencyModifiers)
        /\ \A k \in 1..Len(result.value) :
               result.value[k].name = ReinsertedName(ProficiencyModifiers[k].subType)

(***************************************************************************)
(* Appearance: inputs and calls                                            *)
(***************************************************************************)

\* 'Signs'
SIGNS == <<83, 105, 103, 110, 115>>
\* '  A skull '
PADDED_SKULL == <<32, 32, 65, 32, 115, 107, 117, 108, 108, 32>>
\* 'A skull'
A_SKULL == <<65, 32, 115, 107, 117, 108, 108>>
\* 'Age: 30'
AGE_LINE == <<65, 103, 101, 58, 32, 51, 48>>
\* '  '
BLANK_LINE == <<32, 32>>

\* Number of lines of data.traits.appearance.
MaxLines == 4

\* Lines of data.traits.appearance: a line without colon, one with
\* whitespace around it, a line with a colon and a line of whitespace.
LinePool == {SIGNS, PADDED_SKULL, AGE_LINE, BLANK_LINE}

\* A tree with a background definition and this data.traits.
WithTraits(traits) ==
    [WithBackground(BaseTree, <<>>) EXCEPT !.data = [traits |-> traits] @@ @]

\* The trees of the appearance claim: every appearance of up to MaxLines
\* lines, appearances with empty lines, an empty appearance, a traits
\* section without appearance and a tree without traits.
AppearanceTrees ==
    { WithTraits([appearance |-> join(LF, lines)]) :
          lines \in SeqsUpTo(LinePool, MaxLines) \ {<<>>} }
        \cup { WithTraits([appearance |-> join(LF, <<SIGNS, EMPTY, A_SKULL>>)]),
               WithTraits([appearance |-> join(LF, <<EMPTY, SIGNS, EMPTY>>)]),
               WithTraits([appearance |-> EMPTY]),
               WithTraits([appearance |-> None]),
               WithTraits([ideals |-> SIGNS]),
               WithBackground(BaseTree, <<>>) }

InitTraits ==
    /\ data \in AppearanceTrees
    /\ text = EMPTY
    /\ fn = "none"
    /\ pc = "start"
    /\ cleaned = EMPTY
    /\ recleaned = EMPTY
    /\ result = Ok(None)
    /\ Idle

NextTraits == CallGetBackground \/ CallParse

SpecTraits == InitTraits /\ [][NextTraits]_vars

(***************************************************************************)
(* Appearance: properties                                                  *)
(***************************************************************************)

\* get_background has returned a record.
BackgroundReturned ==
    pc = "returned" /\ fn = "get_background" /\ ~result.raised

\* The additional_traits of the record returned.
AdditionalTraits == result.value.background_bonuses[3].additional_traits

\* The trimmed lines of data.traits.appearance that are not empty, in
\* order; none when there is no appearance.
AppearanceLines ==
    IF Has(data.data, "traits") /\ Has(data.data.traits, "appearance")
           /\ ~Falsy(data.data.traits.appearance)
        THEN SelectSeq([k \in 1..Len(split_sep(data.data.traits.appearance, LF))
                           |-> strip(split_sep(data.data.traits.appearance, LF)[k])],
                       LAMBDA line : line # <<>>)
    ELSE <<>>

\* The lines of the appearance without a colon.
ColonFreeLines ==
    SelectSeq(AppearanceLines, LAMBDA line : ~Contains(line, COLON))

\* C23: additional_traits pairs the colon-free non-empty trimmed lines of
\* traits.appearance in input order: entry j is '<header>: <line>' for the
\* (2j-1)-th and the 2j-th colon-free line, lines with a colon are skipped
\* and leave the pending header as it is, there are floor(k/2) entries for
\* k colon-free lines and a trailing unpaired header is dropped.
C23_PairsOfColonFreeLines ==
    BackgroundReturned
        => /\ Len(AdditionalTraits) = Len(ColonFreeLines) \div 2
           /\ \A j \in 1..Len(AdditionalTraits) :
                  AdditionalTraits[j]
                      = ColonFreeLines[2 * j - 1] \o COLON_SPACE
                            \o ColonFreeLines[2 * j]

\* get_background has returned for an appearance of four lines: a header,
\* a line with a colon, the header's line and an unpaired header.
C23_Witness ==
    /\ BackgroundReturned
    /\ Has(data.data, "traits")
    /\ Has(data.data.traits, "appearance")
    /\ data.data.traits.appearance
           = join(LF, <<SIGNS, AGE_LINE, PADDED_SKULL, SIGNS>>)
    /\ AdditionalTraits = <<SIGNS \o COLON_SPACE \o A_SKULL>>

\* get_background has returned two entries.
TwoAdditionalTraits ==
    /\ BackgroundReturned
    /\ Len(AdditionalTraits) = 2

(***************************************************************************)
(* Spells and inventory of one record: inputs and calls                    *)
(***************************************************************************)

\* Length of the data.inventory sequences of the record claim.
MaxCarried == 2

\* Entries of data.spells.item of the record claim: a known spell and
\* spells granted by the staff, by the mount and by the second backpack.
GrantedSpellPool ==
    { SpellKnown(FIRE_BOLT, 0),
      SpellFrom(4, CURE_WOUNDS, 1),
      SpellFrom(3, LIGHT, 0),
      SpellFrom(2, MAGIC_MISSILE, 1) }

\* The trees of the record claim: every short inventory, without spell or
\* with one spell.
RecordTrees ==
    { TreeWithItems(inventory, spells) :
          inventory \in SeqsUpTo(ItemPool, MaxCarried),
          spells \in {<<>>} \cup { <<spell>> : spell \in GrantedSpellPool } }

InitRecord ==
    /\ data \in RecordTrees
    /\ text = EMPTY
    /\ fn = "none"
    /\ pc = "start"
    /\ cleaned = EMPTY
    /\ recleaned = EMPTY
    /\ result = Ok(None)
    /\ Idle

NextRecord == CallParse \/ CallGetSpells \/ CallGetInventory

SpecRecord == InitRecord /\ [][NextRecord]_vars

(***************************************************************************)
(* Spells and inventory of one record: properties                          *)
(***************************************************************************)

\* The names of the items of the record's inventory list.
InventoryNames ==
    { result.value.inventory[j].name : j \in 1..Len(result.value.inventory) }

\* The source_item values of the record's spells.
SourceItems ==
    { result.value.spells[i].source_item :
          i \in { k \in 1..Len(result.value.spells) :
                      "source_item" \in DOMAIN result.value.spells[k] } }

\* C24: in a record parse() has returned, every source_item of a spell is
\* the name of an item of the record's inventory list.
C24_SourceItemInInventory ==
    ParseReturned => SourceItems \subseteq InventoryNames

\* The same for every granting item but the mount: a source_item other
\* than 'Donkey (or Mule)' is the name of an item of the record's
\* inventory, also when the granting item is a second 'Backpack'.
SourceItemInInventoryButMount ==
    ParseReturned => (SourceItems \ {DONKEY}) \subseteq InventoryNames

\* parse() has returned a record whose spell is granted by the mount,
\* which the inventory list does not have.
MountGrantsSpell ==
    /\ ParseReturned
    /\ SourceItems = {DONKEY}
    /\ DONKEY \notin InventoryNames

\* parse() has returned a record whose spell is granted by the second
\* backpack.
SecondBackpackGrantsSpell ==
    /\ ParseReturned
    /\ Len(data.data.inventory) = 2
    /\ data.data.inventory[1] = InventoryItem(1, BACKPACK, 1)
    /\ data.data.inventory[2] = InventoryItem(2, BACKPACK, 2)
    /\ SourceItems = {BACKPACK}
    /\ NamedCount(result.value.inventory, BACKPACK) = 1
====
